---- MODULE Spec2Model ----
(***************************************************************************)
(* State-machine model of the playground MK-1 audio core (src/mk-1.js):   *)
(* the one-time construction of the audio graph, the drum / synth         *)
(* triggers, the 16-step sequencer clock, the four looper slots with      *)
(* their event logs and raw captures, and the MK1 automation facade.      *)
(*                                                                         *)
(* Time is counted in units of ClockUnitMs milliseconds, and every time   *)
(* is kept relative to the present, the code using only differences of    *)
(* clock readings: a pending timer holds the time left until it is due,   *)
(* and recordingAge holds audioContext.currentTime - recordingStart.      *)
(* Pending timers are kept in creation order; the timer that fires next   *)
(* is the earliest created among those that are due.                      *)
(***************************************************************************)
EXTENDS Integers, Sequences, FiniteSets, TLC

\* ------------------------------------------------------------------ bounds
MaxTime == 2
MaxTimers == 2
MaxLoopLen == 2
MaxRecorders == 2
MaxHistoryLen == 3
MaxEdits == 53
MaxReplayTimers == 3
MaxDwellStarts == 2
ClockUnitMs == 50

\* ------------------------------------------------------- program constants
SEQUENCER_STEPS == 16
DEFAULT_TEMPO == 120
ATTACK_MS == 10
RELEASE_MS == 300
MAX_HISTORY == 50
RetryDelayMs == 100
TempoRestartMs == 50
ReleaseRestoreMs == 10

drums == <<"kick", "snare", "hihat", "clap", "tom1", "perc", "cymbal", "rim">>
drumMap == drums
Drums == {drums[i] : i \in DOMAIN drums}
Steps == 0 .. (SEQUENCER_STEPS - 1)
Slots == {"A", "B", "C", "D"}
SlotOrder == <<"A", "B", "C", "D">>

\* ------------------------------------------------------ JavaScript values
\* The arguments a script can pass to the MK1 facade. A number is the exact
\* rational num / den (den > 0); NaN, strings, booleans and undefined are kept
\* apart by their type tag.
JsNumber(num, den) == [type |-> "number", num |-> num, den |-> den, s |-> ""]
JsInt(n) == JsNumber(n, 1)
JsNaN == [type |-> "NaN", num |-> 0, den |-> 1, s |-> ""]
JsString(str) == [type |-> "string", num |-> 0, den |-> 1, s |-> str]
JsBoolean(b) == [type |-> "boolean", num |-> IF b THEN 1 ELSE 0, den |-> 1, s |-> ""]
JsUndefined == [type |-> "undefined", num |-> 0, den |-> 1, s |-> ""]

\* A conversion that takes only the boolean true for true.
ToBooleanStrict(v) == v.type = "boolean" /\ v.num = 1

\* ToBoolean(v), the value of `!!v` and of `if (v)`.
ToBoolean(v) ==
    CASE v.type = "boolean" -> v.num = 1
      [] v.type = "number" -> v.num # 0
      [] v.type = "string" -> v.s # ""
      [] OTHER -> FALSE

\* Number.isInteger(v)
NumberIsInteger(v) == v.type = "number" /\ v.num % v.den = 0

\* The value of an integral number.
IntegerOf(v) == v.num \div v.den

\* ------------------------------------------------------------ input sets
DrumInputs == {"kick"}
PadInputs == {JsInt(1), JsInt(9), JsNumber(3, 2), JsString("1")}
StepInputs == {0, 1}
FreqInputs == {262}
WaveInputs == {"sine", "square"}
SlotInputs == {"A", "B"}
TempoInputs == {150}
BufferDurationInputs == {1, 2}

VARIABLES
    audioContext,          \* TRUE once `new AudioContext()` has run
    initCount,             \* how often the construction branch of initSystem ran
    masterGain,            \* identity of the graph built by initSystem, 0 = undefined
    timers,                \* pending setTimeout / setInterval callbacks, creation order
    sequencerSteps,        \* [drum -> [0..15 -> BOOLEAN]]
    sequencerHistory,
    sequencerHistoryIndex,
    currentStep,
    isPlaying,
    sequencerInterval,     \* handle returned by the last setInterval, 0 = undefined
    tempo,                 \* value of the tempo slider
    isRecording,
    isOverdub,
    recordingAge,          \* audioContext.currentTime - recordingStart; 0 while idle
    activeSlot,
    loopSlots,             \* [slot -> [loop, audioBlob, audioBuffer, isPlaying]]
    waveType,              \* dataset.value of the waveType select
    releaseTime,
    mediaRecorder,         \* handle of the last MediaRecorder created, 0 = undefined
    recorders,             \* the MediaRecorders not yet done: [id, state, session]
    trig,                  \* the sounds triggered by the last step, in order
    attackTime,            \* a JavaScript value
    crushAmount,           \* crushAmount of the bitcrusher, a JavaScript value
    setCrushAmount,        \* TRUE once window.setCrushAmount is defined
    dwell,                 \* the state of DwellAudio (src/mk-dwell/js/audio.js)
    edits,                 \* how many step-grid edits were made so far
    stopRequested          \* TRUE from a stop request to the next start or toggle request

audioVars == <<audioContext, initCount, masterGain>>
seqVars == <<sequencerSteps, sequencerHistory, sequencerHistoryIndex, currentStep,
             isPlaying, sequencerInterval, tempo>>
recVars == <<isRecording, isOverdub, recordingAge, mediaRecorder, recorders>>
\* The state outside the sequencer, the looper and the triggers.
quietVars == <<attackTime, crushAmount, setCrushAmount, dwell, edits>>
otherVars == <<quietVars, stopRequested>>
vars == <<audioContext, initCount, masterGain, timers, sequencerSteps,
          sequencerHistory, sequencerHistoryIndex, currentStep, isPlaying,
          sequencerInterval, tempo, isRecording, isOverdub, recordingAge,
          activeSlot, loopSlots, waveType, releaseTime, mediaRecorder, recorders,
          trig, attackTime, crushAmount, setCrushAmount, dwell, edits, stopRequested>>

\* ------------------------------------------------------------- data shapes
NoEvent == [type |-> "none", sound |-> "none", freq |-> 0, wave |-> "none", time |-> 0]
DrumEvent(sound, t) ==
    [type |-> "drum", sound |-> sound, freq |-> 0, wave |-> "none", time |-> t]
SynthEvent(freq, wave, t) ==
    [type |-> "synth", sound |-> "none", freq |-> freq, wave |-> wave, time |-> t]

\* What a trigger makes audible: the drum sound, or the note with the waveform
\* that playNote reads from the waveType select.
DrumSound(sound) == [type |-> "drum", sound |-> sound, freq |-> 0, wave |-> "none"]
SynthSound(freq, wave) == [type |-> "synth", sound |-> "none", freq |-> freq, wave |-> wave]

EmptySlot ==
    [loop |-> <<>>, audioBlob |-> 0, audioBuffer |-> 0, duration |-> 0, isPlaying |-> FALSE]
EmptyPattern == [d \in Drums |-> [i \in Steps |-> FALSE]]

Timer(kind, due, ev, skip, slot, n, every) ==
    [kind |-> kind, due |-> due, ev |-> ev, skip |-> skip, slot |-> slot, n |-> n,
     every |-> every]

\* setTimeout / setInterval delays, in clock units (rounded up).
DelayUnits(ms) == (ms + ClockUnitMs - 1) \div ClockUnitMs

\* DwellAudio after its module is loaded: no context, not running, no layers,
\* no pending timeout or animation frame, the cursor in the middle.
DwellInit ==
    [audioContext |-> FALSE, isRunning |-> FALSE, droneNodes |-> 0,
     textureNode |-> FALSE, eventTimeout |-> FALSE, clickTimeout |-> FALSE,
     sources |-> 0, frames |-> 0, masterTarget |-> 0,
     position |-> [x |-> [type |-> "number", num |-> 1, den |-> 2, s |-> ""],
                   y |-> [type |-> "number", num |-> 1, den |-> 2, s |-> ""]]]

Init ==
    /\ audioContext = FALSE
    /\ initCount = 0
    /\ masterGain = 0
    /\ timers = <<>>
    /\ sequencerSteps = EmptyPattern
    /\ sequencerHistory = <<EmptyPattern>>
    /\ sequencerHistoryIndex = 0
    /\ currentStep = 0
    /\ isPlaying = FALSE
    /\ sequencerInterval = 0
    /\ tempo = DEFAULT_TEMPO
    /\ isRecording = FALSE
    /\ isOverdub = FALSE
    /\ recordingAge = 0
    /\ activeSlot = "A"
    /\ loopSlots = [s \in Slots |-> EmptySlot]
    /\ waveType = "sine"
    /\ releaseTime = RELEASE_MS
    /\ mediaRecorder = 0
    /\ recorders = {}
    /\ trig = <<>>
    /\ attackTime = JsInt(ATTACK_MS)
    /\ crushAmount = JsInt(0)
    /\ setCrushAmount = FALSE
    /\ dwell = DwellInit
    /\ edits = 0
    /\ stopRequested = FALSE

\* ------------------------------------------------------------- initSystem
\* A construction branch without its guard.
NeedsConstructionAlways == TRUE

\* The guard of the construction branch.
NeedsConstruction == ~audioContext

initSystem ==
    /\ audioContext' = TRUE
    /\ initCount' = IF NeedsConstruction THEN initCount + 1 ELSE initCount
    /\ masterGain' = IF NeedsConstruction THEN initCount + 1 ELSE masterGain

\* ------------------------------------------------------------------ timers
CanSchedule(ts, k) == Len(ts) + k <= MaxTimers

Remove(ts, i) == SubSeq(ts, 1, i - 1) \o SubSeq(ts, i + 1, Len(ts))

\* The pending timer the host runs next: the earliest created of the due ones.
IsNext(i) ==
    /\ i \in DOMAIN timers
    /\ timers[i].due = 0
    /\ \A j \in 1 .. (i - 1) : timers[j].due > 0

\* setTimeout(() => playDrum(type), 100) and setTimeout(() => playNote(freq), 100):
\* the retry passes one argument, so skipRecording takes its default.
RetrySkip(skipRecording) == FALSE

\* ---------------------------------------------------------------- triggers
RecordingActive == isRecording \/ isOverdub

Push(ls, slot, ev) == [ls EXCEPT ![slot].loop = Append(@, ev)]

\* A logging condition that ignores skipRecording.
LogsAnyTrigger(skipRecording) == RecordingActive

\* The tail of playDrum and of playNote: the descriptor is logged in the active slot.
Logs(skipRecording) == ~skipRecording /\ RecordingActive

LogEvent(ls, ev, skipRecording) ==
    IF Logs(skipRecording) THEN Push(ls, activeSlot, ev) ELSE ls

\* The number of logged events, all slots together.
RECURSIVE LoggedEvents(_, _)
LoggedEvents(ls, order) ==
    IF order = <<>> THEN 0
    ELSE Len(ls[Head(order)].loop) + LoggedEvents(ls, Tail(order))

HasRoom(ls) == LoggedEvents(ls, SlotOrder) <= MaxLoopLen

\* time: audioContext.currentTime - recordingStart
EventTime == recordingAge

\* playDrum(type, skipRecording), called with the timers `ts` left pending.
playDrum(type, skipRecording, ts) ==
    IF ~audioContext
    THEN /\ CanSchedule(ts, 1)
         /\ initSystem
         /\ timers' = Append(ts, Timer("retryDrum", DelayUnits(RetryDelayMs),
                                       DrumEvent(type, 0), RetrySkip(skipRecording), "", 0, 0))
         /\ trig' = <<>>
         /\ UNCHANGED loopSlots
    ELSE /\ UNCHANGED audioVars
         /\ timers' = ts
         /\ trig' = <<DrumSound(type)>>
         /\ loopSlots' = LogEvent(loopSlots, DrumEvent(type, EventTime), skipRecording)
         /\ HasRoom(loopSlots')

\* playNote(freq, skipRecording): the waveform is the select's current value.
playNote(freq, skipRecording, ts) ==
    IF ~audioContext
    THEN /\ CanSchedule(ts, 1)
         /\ initSystem
         /\ timers' = Append(ts, Timer("retryNote", DelayUnits(RetryDelayMs),
                                       SynthEvent(freq, "none", 0), RetrySkip(skipRecording),
                                       "", 0, 0))
         /\ trig' = <<>>
         /\ UNCHANGED loopSlots
    ELSE /\ UNCHANGED audioVars
         /\ timers' = ts
         /\ trig' = <<SynthSound(freq, waveType)>>
         /\ loopSlots' = LogEvent(loopSlots, SynthEvent(freq, waveType, EventTime),
                                  skipRecording)
         /\ HasRoom(loopSlots')

\* Pad click, drum key, MIDI drum note.
PadClick(sound) ==
    /\ playDrum(sound, FALSE, timers)
    /\ UNCHANGED <<seqVars, recVars, activeSlot, waveType, otherVars, releaseTime>>

\* Keyboard key click, note key, MIDI note.
KeyClick(freq) ==
    /\ playNote(freq, FALSE, timers)
    /\ UNCHANGED <<seqVars, recVars, activeSlot, waveType, otherVars, releaseTime>>

RetryDrumFires ==
    \E i \in DOMAIN timers :
        /\ IsNext(i)
        /\ timers[i].kind = "retryDrum"
        /\ playDrum(timers[i].ev.sound, timers[i].skip, Remove(timers, i))
        /\ UNCHANGED <<seqVars, recVars, activeSlot, waveType, otherVars, releaseTime>>

RetryNoteFires ==
    \E i \in DOMAIN timers :
        /\ IsNext(i)
        /\ timers[i].kind = "retryNote"
        /\ playNote(timers[i].ev.freq, timers[i].skip, Remove(timers, i))
        /\ UNCHANGED <<seqVars, recVars, activeSlot, waveType, otherVars, releaseTime>>

\* The waveType select (CustomSelect.select).
SelectWave(w) ==
    /\ waveType' = w
    /\ trig' = <<>>
    /\ UNCHANGED <<audioVars, timers, seqVars, recVars, activeSlot, loopSlots,
                   releaseTime, otherVars>>

\* Time passes by one unit: no due timer is left waiting.
Advance ==
    /\ \A i \in DOMAIN timers : timers[i].due > 0
    /\ RecordingActive => recordingAge < MaxTime
    /\ timers' = [i \in DOMAIN timers |-> [timers[i] EXCEPT !.due = @ - 1]]
    /\ recordingAge' = IF RecordingActive THEN recordingAge + 1 ELSE 0
    /\ trig' = <<>>
    /\ UNCHANGED <<audioVars, seqVars, isRecording, isOverdub, mediaRecorder, recorders,
                   activeSlot, loopSlots, waveType, otherVars, releaseTime>>

\* ---------------------------------------------------------- media recorder
\* A recorder is "recording" from start() to stop(), "stopped" until its onstop
\* handler has run, then "decoding" until decodeAudioData settles; after that it
\* is dropped.  A blob and the buffer decoded from it carry the recorder's id.
\* `session` names the kind of session that created the recorder.
\* Recorders are numbered in the order of their creation.
FreshId == mediaRecorder + 1

CanRecord == mediaRecorder < MaxRecorders

\* startMediaRecording(): mediaRecorder = new MediaRecorder(...); mediaRecorder.start().
startMediaRecording(recs, session) ==
    recs \cup {[id |-> FreshId, state |-> "recording", session |-> session]}

\* if (mediaRecorder && mediaRecorder.state !== 'inactive') mediaRecorder.stop();
stopMediaRecorder(recs, h) ==
    {IF r.id = h /\ r.state = "recording"
        THEN [r EXCEPT !.state = "stopped"]
        ELSE r : r \in recs}

\* Where mediaRecorder.onstop stores the blob, and later the decoded buffer.
StopTarget == activeSlot

\* mediaRecorder.onstop, up to the first await.
RecorderStopFires ==
    \E r \in recorders :
        /\ r.state = "stopped"
        /\ recorders' = (recorders \ {r}) \cup {[r EXCEPT !.state = "decoding"]}
        /\ loopSlots' = [loopSlots EXCEPT ![StopTarget].audioBlob = r.id]
        /\ trig' = <<>>
        /\ UNCHANGED <<audioVars, timers, seqVars, isRecording, isOverdub,
                       recordingAge, mediaRecorder, activeSlot, waveType, otherVars, releaseTime>>

\* The rest of onstop, once decodeAudioData has resolved (ok) with a buffer of the
\* given duration, or rejected.
DecodeSettles(ok, duration) ==
    \E r \in recorders :
        /\ r.state = "decoding"
        /\ recorders' = recorders \ {r}
        /\ loopSlots' = IF ok
                        THEN [loopSlots EXCEPT ![StopTarget].audioBuffer = r.id,
                                               ![StopTarget].duration = duration]
                        ELSE loopSlots
        /\ trig' = <<>>
        /\ UNCHANGED <<audioVars, timers, seqVars, isRecording, isOverdub,
                       recordingAge, mediaRecorder, activeSlot, waveType, otherVars, releaseTime>>

\* ---------------------------------------------------------------- recording
\* What starting a recording does to the target slot's event list.
RecordStartLoop(loop) == <<>>

\* An overdub that starts like a recording.
OverdubStartLoopEmptied(loop) == <<>>

\* What starting an overdub does to the target slot's event list.
OverdubStartLoop(loop) == loop

\* recordBtn click handler, with the timers `ts` left pending.
recordBtnClick(ts) ==
    IF ~audioContext
    THEN /\ CanSchedule(ts, 1)
         /\ initSystem
         /\ timers' = Append(ts, Timer("retryRecordBtn", DelayUnits(RetryDelayMs),
                                       NoEvent, FALSE, "", 0, 0))
         /\ UNCHANGED <<recVars, loopSlots>>
    ELSE /\ UNCHANGED audioVars
         /\ timers' = ts
         /\ IF ~isRecording
            THEN /\ CanRecord
                 /\ isRecording' = TRUE
                 /\ isOverdub' = FALSE
                 /\ recordingAge' = 0
                 /\ loopSlots' = [loopSlots EXCEPT
                                    ![activeSlot].loop = RecordStartLoop(@)]
                 /\ recorders' = startMediaRecording(recorders, "record")
                 /\ mediaRecorder' = FreshId
            ELSE /\ isRecording' = FALSE
                 /\ recorders' = stopMediaRecorder(recorders, mediaRecorder)
                 /\ UNCHANGED <<isOverdub, recordingAge, loopSlots, mediaRecorder>>

RecordBtnClick ==
    /\ recordBtnClick(timers)
    /\ trig' = <<>>
    /\ UNCHANGED <<seqVars, activeSlot, waveType, otherVars, releaseTime>>

RetryRecordBtnFires ==
    \E i \in DOMAIN timers :
        /\ IsNext(i)
        /\ timers[i].kind = "retryRecordBtn"
        /\ recordBtnClick(Remove(timers, i))
        /\ trig' = <<>>
        /\ UNCHANGED <<seqVars, activeSlot, waveType, otherVars, releaseTime>>

\* overdubBtn click handler.
overdubBtnClick(ts) ==
    IF ~audioContext
    THEN /\ CanSchedule(ts, 1)
         /\ initSystem
         /\ timers' = Append(ts, Timer("retryOverdubBtn", DelayUnits(RetryDelayMs),
                                       NoEvent, FALSE, "", 0, 0))
         /\ UNCHANGED <<recVars, loopSlots>>
    ELSE /\ UNCHANGED audioVars
         /\ timers' = ts
         /\ IF ~isOverdub /\ ~isRecording
            THEN /\ CanRecord
                 /\ isOverdub' = TRUE
                 /\ recordingAge' = 0
                 /\ loopSlots' = [loopSlots EXCEPT
                                    ![activeSlot].loop = OverdubStartLoop(@)]
                 /\ recorders' = startMediaRecording(recorders, "overdub")
                 /\ mediaRecorder' = FreshId
                 /\ UNCHANGED isRecording
            ELSE IF isOverdub
                 THEN /\ isOverdub' = FALSE
                      /\ recorders' = stopMediaRecorder(recorders, mediaRecorder)
                      /\ UNCHANGED <<isRecording, recordingAge, loopSlots, mediaRecorder>>
                 ELSE UNCHANGED <<recVars, loopSlots>>

OverdubBtnClick ==
    /\ overdubBtnClick(timers)
    /\ trig' = <<>>
    /\ UNCHANGED <<seqVars, activeSlot, waveType, otherVars, releaseTime>>

RetryOverdubBtnFires ==
    \E i \in DOMAIN timers :
        /\ IsNext(i)
        /\ timers[i].kind = "retryOverdubBtn"
        /\ overdubBtnClick(Remove(timers, i))
        /\ trig' = <<>>
        /\ UNCHANGED <<seqVars, activeSlot, waveType, otherVars, releaseTime>>

\* slot-btn click handler.
SlotBtnClick(slot) ==
    /\ activeSlot' = slot
    /\ trig' = <<>>
    /\ UNCHANGED <<audioVars, timers, seqVars, recVars, loopSlots, waveType, otherVars,
                   releaseTime>>

\* clearLoopBtn click handler.
ClearLoopBtnClick ==
    /\ loopSlots' = [loopSlots EXCEPT ![activeSlot].loop = <<>>,
                                      ![activeSlot].audioBlob = 0,
                                      ![activeSlot].audioBuffer = 0,
                                      ![activeSlot].duration = 0]
    /\ trig' = <<>>
    /\ UNCHANGED <<audioVars, timers, seqVars, recVars, activeSlot, waveType, otherVars,
                   releaseTime>>

\* ---------------------------------------------------------------- sequencer
\* const interval = (60 / tempo) * 1000 / 4, given to setInterval in milliseconds.
IntervalMs(bpm) == 15000 \div bpm

\* setInterval returns a handle no live interval has.
TickHandles(ts) == {ts[i].n : i \in {j \in DOMAIN ts : ts[j].kind = "tick"}}

FreshHandle(ts) ==
    CHOOSE n \in 1 .. (Cardinality(TickHandles(ts)) + 1) :
        /\ n \notin TickHandles(ts)
        /\ \A m \in 1 .. (n - 1) : m \in TickHandles(ts)

\* A clearInterval that clears nothing.
clearIntervalNoOp(ts, h) == ts

\* clearInterval(handle)
clearInterval(ts, h) == SelectSeq(ts, LAMBDA t : ~(t.kind = "tick" /\ t.n = h))

\* A pointer that runs past the last step.
NextStepNoWrap(step) == step + 1

\* currentStep = (currentStep + 1) % 16
NextStep(step) == (step + 1) % SEQUENCER_STEPS

\* stopSequencer sets currentStep.
StoppedStep == 0

\* An auto-record condition that does not look at the overdub flag.
AutoRecordsDuringOverdub(skipRecording) == ~skipRecording /\ ~isRecording

\* The condition under which starting the sequencer also starts a recording.
AutoRecords(skipRecording) == ~skipRecording /\ ~isRecording /\ ~isOverdub

\* stopSequencer(shouldStopRecording), with the timers `ts` left pending.
stopSequencer(shouldStopRecording, ts) ==
    /\ timers' = clearInterval(ts, sequencerInterval)
    /\ isPlaying' = FALSE
    /\ currentStep' = StoppedStep
    /\ IF shouldStopRecording /\ isRecording
       THEN /\ isRecording' = FALSE
            /\ recorders' = stopMediaRecorder(recorders, mediaRecorder)
       ELSE UNCHANGED <<isRecording, recorders>>
    /\ UNCHANGED <<sequencerInterval, recordingAge, mediaRecorder, loopSlots>>

\* toggleSequencer(skipRecording) past its audioContext check.
toggleSequencerBody(skipRecording, ts) ==
    IF ~isPlaying
    THEN /\ CanSchedule(ts, 1)
         /\ isPlaying' = TRUE
         /\ IF AutoRecords(skipRecording)
            THEN /\ CanRecord
                 /\ isRecording' = TRUE
                 /\ recordingAge' = 0
                 /\ loopSlots' = [loopSlots EXCEPT
                                    ![activeSlot].loop = RecordStartLoop(@)]
                 /\ recorders' = startMediaRecording(recorders, "record")
                 /\ mediaRecorder' = FreshId
            ELSE UNCHANGED <<isRecording, recordingAge, loopSlots, recorders,
                             mediaRecorder>>
         /\ sequencerInterval' = FreshHandle(ts)
         /\ timers' = Append(ts, Timer("tick", DelayUnits(IntervalMs(tempo)),
                                       NoEvent, FALSE, "", FreshHandle(ts),
                                       DelayUnits(IntervalMs(tempo))))
         /\ UNCHANGED currentStep
    ELSE stopSequencer(TRUE, ts)

\* toggleSequencer(skipRecording), with the timers `ts` left pending.
toggleSequencer(skipRecording, ts) ==
    IF ~audioContext
    THEN /\ CanSchedule(ts, 1)
         /\ initSystem
         /\ timers' = Append(ts, Timer("retryToggle", DelayUnits(RetryDelayMs),
                                       NoEvent, skipRecording, "", 0, 0))
         /\ UNCHANGED <<isPlaying, currentStep, sequencerInterval, isRecording,
                        recordingAge, mediaRecorder, recorders, loopSlots>>
    ELSE /\ UNCHANGED audioVars
         /\ toggleSequencerBody(skipRecording, ts)

\* A toggle request made now stops the sequencer.
StopsSequencer == audioContext /\ isPlaying

\* playSeq click: the listener is toggleSequencer itself, so its first argument is
\* the click event, which is truthy.
PlaySeqBtnClick ==
    /\ toggleSequencer(TRUE, timers)
    /\ stopRequested' = StopsSequencer
    /\ trig' = <<>>
    /\ UNCHANGED <<sequencerSteps, sequencerHistory, sequencerHistoryIndex, tempo,
                   isOverdub, activeSlot, waveType, quietVars, releaseTime>>

\* The space key: toggleSequencer().
SpaceKey ==
    /\ toggleSequencer(FALSE, timers)
    /\ stopRequested' = StopsSequencer
    /\ trig' = <<>>
    /\ UNCHANGED <<sequencerSteps, sequencerHistory, sequencerHistoryIndex, tempo,
                   isOverdub, activeSlot, waveType, quietVars, releaseTime>>

\* setTimeout(() => toggleSequencer(skipRecording), 100)
RetryToggleFires ==
    \E i \in DOMAIN timers :
        /\ IsNext(i)
        /\ timers[i].kind = "retryToggle"
        /\ toggleSequencer(timers[i].skip, Remove(timers, i))
        /\ trig' = <<>>
        /\ UNCHANGED <<sequencerSteps, sequencerHistory, sequencerHistoryIndex,
                       tempo, isOverdub, activeSlot, waveType, otherVars, releaseTime>>

\* A tick that reads the cells of the step it advances to.
RECURSIVE TickDrumsAdvanced(_, _, _)
TickDrumsAdvanced(steps, step, k) ==
    IF k > Len(drums) THEN <<>>
    ELSE (IF steps[drums[k]][NextStep(step)] THEN <<drums[k]>> ELSE <<>>)
             \o TickDrumsAdvanced(steps, step, k + 1)

\* The drums the tick callback triggers, in the order of `drums`.
RECURSIVE TickDrums(_, _, _)
TickDrums(steps, step, k) ==
    IF k > Len(drums) THEN <<>>
    ELSE (IF steps[drums[k]][step] THEN <<drums[k]>> ELSE <<>>)
             \o TickDrums(steps, step, k + 1)

RECURSIVE PlayDrums(_, _)
PlayDrums(ls, sounds) ==
    IF sounds = <<>> THEN ls
    ELSE PlayDrums(LogEvent(ls, DrumEvent(Head(sounds), EventTime), FALSE), Tail(sounds))

\* The setInterval callback of toggleSequencer.
SeqTick ==
    \E i \in DOMAIN timers :
        /\ IsNext(i)
        /\ timers[i].kind = "tick"
        /\ trig' = [k \in DOMAIN TickDrums(sequencerSteps, currentStep, 1) |->
                       DrumSound(TickDrums(sequencerSteps, currentStep, 1)[k])]
        /\ loopSlots' = PlayDrums(loopSlots, TickDrums(sequencerSteps, currentStep, 1))
        /\ HasRoom(loopSlots')
        /\ currentStep' = NextStep(currentStep)
        /\ timers' = Append(Remove(timers, i),
                            [timers[i] EXCEPT !.due = @ + timers[i].every])
        /\ UNCHANGED <<audioVars, sequencerSteps, sequencerHistory,
                       sequencerHistoryIndex, isPlaying, sequencerInterval, tempo, recVars,
                       activeSlot, waveType, otherVars, releaseTime>>

\* tempo input handler.
tempoInput(bpm) ==
    /\ tempo' = bpm
    /\ IF isPlaying
       THEN /\ CanSchedule(timers, 1)
            /\ stopSequencer(FALSE, timers \o
                   <<Timer("tempoRestart", DelayUnits(TempoRestartMs), NoEvent,
                           FALSE, "", 0, 0)>>)
       ELSE UNCHANGED <<timers, isPlaying, currentStep, sequencerInterval, isRecording,
                        recordingAge, mediaRecorder, recorders, loopSlots>>
    /\ trig' = <<>>
    /\ UNCHANGED <<audioVars, sequencerSteps, sequencerHistory, sequencerHistoryIndex,
                   isOverdub, activeSlot, waveType, otherVars, releaseTime>>

TempoSlider(bpm) == tempoInput(bpm)

\* setTimeout(() => toggleSequencer(), 50)
TempoRestartFires ==
    \E i \in DOMAIN timers :
        /\ IsNext(i)
        /\ timers[i].kind = "tempoRestart"
        /\ toggleSequencer(FALSE, Remove(timers, i))
        /\ trig' = <<>>
        /\ UNCHANGED <<sequencerSteps, sequencerHistory, sequencerHistoryIndex,
                       tempo, isOverdub, activeSlot, waveType, otherVars, releaseTime>>

\* saveSequencerState() without the slice of the redo states.
saveSequencerStateKeepRedo(hist, idx, steps) ==
    LET pushed == Append(hist, steps)
    IN  IF Len(pushed) > MAX_HISTORY
        THEN [history |-> Tail(pushed), index |-> idx]
        ELSE [history |-> pushed, index |-> idx + 1]

saveSequencerState(hist, idx, steps) ==
    LET kept == IF idx < Len(hist) - 1 THEN SubSeq(hist, 1, idx + 1) ELSE hist
        pushed == Append(kept, steps)
    IN  IF Len(pushed) > MAX_HISTORY
        THEN [history |-> Tail(pushed), index |-> idx]
        ELSE [history |-> pushed, index |-> idx + 1]

\* restoreSequencerState(state): every track is copied from the saved state.
restoreSequencerState(state) == [d \in Drums |-> state[d]]

\* undoSequencer() and redoSequencer() on st = [history, index, steps]; the
\* index counts from 0 as in the source.
undoSequencer(st) ==
    IF st.index > 0
    THEN [st EXCEPT !.index = st.index - 1,
                    !.steps = restoreSequencerState(st.history[st.index])]
    ELSE st

redoSequencer(st) ==
    IF st.index < Len(st.history) - 1
    THEN [st EXCEPT !.index = st.index + 1,
                    !.steps = restoreSequencerState(st.history[st.index + 2])]
    ELSE st

\* The undo state of the program.
SequencerState ==
    [history |-> sequencerHistory, index |-> sequencerHistoryIndex,
     steps |-> sequencerSteps]

\* step click handler: saveSequencerState(), then the toggle.
StepClick(drum, i) ==
    /\ edits < MaxEdits
    /\ edits' = edits + 1
    /\ sequencerHistory' =
          saveSequencerState(sequencerHistory, sequencerHistoryIndex, sequencerSteps).history
    /\ sequencerHistoryIndex' =
          saveSequencerState(sequencerHistory, sequencerHistoryIndex, sequencerSteps).index
    /\ sequencerSteps' = [sequencerSteps EXCEPT ![drum][i] = ~@]
    /\ trig' = <<>>
    /\ UNCHANGED <<audioVars, timers, currentStep, isPlaying, sequencerInterval,
                   tempo, recVars, activeSlot, loopSlots, waveType, releaseTime,
                   attackTime, crushAmount, setCrushAmount, dwell, stopRequested>>

\* A step click while the history is short.
ShortHistoryStepClick(drum, i) ==
    /\ Len(sequencerHistory) < MaxHistoryLen
    /\ StepClick(drum, i)

\* keydown handler, Ctrl+Z: undoSequencer().
UndoKey ==
    /\ sequencerHistoryIndex' = undoSequencer(SequencerState).index
    /\ sequencerSteps' = undoSequencer(SequencerState).steps
    /\ trig' = <<>>
    /\ UNCHANGED <<audioVars, timers, sequencerHistory, currentStep, isPlaying,
                   sequencerInterval, tempo, recVars, activeSlot, loopSlots, waveType,
                   otherVars, releaseTime>>

\* keydown handler, Ctrl+Shift+Z and Ctrl+Y: redoSequencer().
RedoKey ==
    /\ sequencerHistoryIndex' = redoSequencer(SequencerState).index
    /\ sequencerSteps' = redoSequencer(SequencerState).steps
    /\ trig' = <<>>
    /\ UNCHANGED <<audioVars, timers, sequencerHistory, currentStep, isPlaying,
                   sequencerInterval, tempo, recVars, activeSlot, loopSlots, waveType,
                   otherVars, releaseTime>>

\* ------------------------------------------------------------------- replay
\* setTimeout(..., event.time * 1000): the delay of a logged event, in clock units.
ReplayDelay(ev) == ev.time

\* Replay timers of one call carry the same call number, one no pending replay
\* timer has.
ReplayCalls(ts) == {ts[i].n : i \in {j \in DOMAIN ts : ts[j].kind = "replay"}}

FreshCall(ts) ==
    CHOOSE n \in 1 .. (Cardinality(ReplayCalls(ts)) + 1) :
        /\ n \notin ReplayCalls(ts)
        /\ \A m \in 1 .. (n - 1) : m \in ReplayCalls(ts)

\* slot.loop.forEach(event => setTimeout(() => ..., event.time * 1000))
ReplayTimers(loop, slot, call) ==
    [k \in DOMAIN loop |->
        Timer("replay", ReplayDelay(loop[k]), loop[k], TRUE, slot, call, 0)]

\* Replay of the slots listed in `order`, one call number per slot.
RECURSIVE ReplaySlots(_, _)
ReplaySlots(ts, order) ==
    IF order = <<>> THEN ts
    ELSE ReplaySlots(ts \o ReplayTimers(loopSlots[Head(order)].loop, Head(order),
                                        FreshCall(ts)),
                     Tail(order))

AudioSound == [type |-> "audio", sound |-> "none", freq |-> 0, wave |-> "none"]

\* The buffer sources started for the slots listed in `order`.
RECURSIVE BufferSounds(_)
BufferSounds(order) ==
    IF order = <<>> THEN <<>>
    ELSE (IF loopSlots[Head(order)].audioBuffer # 0 THEN <<AudioSound>> ELSE <<>>)
             \o BufferSounds(Tail(order))

\* playLoopBtn (order = the active slot) and playAllBtn (order = all slots) handlers.
playBtnClick(kind, order, ts) ==
    IF ~audioContext
    THEN /\ CanSchedule(ts, 1)
         /\ initSystem
         /\ timers' = Append(ts, Timer(kind, DelayUnits(RetryDelayMs), NoEvent,
                                       FALSE, "", 0, 0))
         /\ trig' = <<>>
    ELSE /\ UNCHANGED audioVars
         /\ timers' = ReplaySlots(ts, order)
         /\ CanSchedule(timers', 0)
         /\ trig' = BufferSounds(order)

PlayLoopBtnClick ==
    /\ playBtnClick("retryPlayLoopBtn", <<activeSlot>>, timers)
    /\ UNCHANGED <<seqVars, recVars, activeSlot, loopSlots, waveType, otherVars, releaseTime>>

PlayAllBtnClick ==
    /\ playBtnClick("retryPlayAllBtn", SlotOrder, timers)
    /\ UNCHANGED <<seqVars, recVars, activeSlot, loopSlots, waveType, otherVars, releaseTime>>

RetryPlayLoopBtnFires ==
    \E i \in DOMAIN timers :
        /\ IsNext(i)
        /\ timers[i].kind = "retryPlayLoopBtn"
        /\ playBtnClick("retryPlayLoopBtn", <<activeSlot>>, Remove(timers, i))
        /\ UNCHANGED <<seqVars, recVars, activeSlot, loopSlots, waveType, otherVars, releaseTime>>

RetryPlayAllBtnFires ==
    \E i \in DOMAIN timers :
        /\ IsNext(i)
        /\ timers[i].kind = "retryPlayAllBtn"
        /\ playBtnClick("retryPlayAllBtn", SlotOrder, Remove(timers, i))
        /\ UNCHANGED <<seqVars, recVars, activeSlot, loopSlots, waveType, otherVars, releaseTime>>

\* A replay callback that leaves skipRecording at its default.
ReplaySkipDefault == FALSE

\* The replay callback: playDrum(event.sound, true) or playNote(event.freq, true).
ReplaySkip == TRUE

ReplayFires ==
    \E i \in DOMAIN timers :
        /\ IsNext(i)
        /\ timers[i].kind = "replay"
        /\ IF timers[i].ev.type = "drum"
           THEN playDrum(timers[i].ev.sound, ReplaySkip, Remove(timers, i))
           ELSE IF timers[i].ev.type = "synth"
                THEN playNote(timers[i].ev.freq, ReplaySkip, Remove(timers, i))
                ELSE /\ timers' = Remove(timers, i)
                     /\ trig' = <<>>
                     /\ UNCHANGED <<audioVars, loopSlots>>
        /\ UNCHANGED <<seqVars, recVars, activeSlot, waveType, otherVars, releaseTime>>

\* ------------------------------------------------------------ DwellAudio
\* The state of the MK-1 page, which DwellAudio does not touch.
mk1Vars == <<audioVars, timers, seqVars, recVars, activeSlot, loopSlots, waveType,
             releaseTime, attackTime, crushAmount, setCrushAmount, edits,
             stopRequested>>

DroneVoices == 3
SourceCount == 5

DwellEventSound == [type |-> "event", sound |-> "none", freq |-> 0, wave |-> "none"]
DwellClickSound == [type |-> "click", sound |-> "none", freq |-> 0, wave |-> "none"]

\* Cursor coordinates below, inside and above the unit range.
PositionInputs == {JsNumber(-1, 2), JsNumber(1, 4), JsInt(2)}

\* Math.max(0, Math.min(1, v))
DwellClamp(v) ==
    IF v.type # "number" THEN JsNaN
    ELSE IF v.num < 0 THEN JsInt(0)
    ELSE IF v.num > v.den THEN JsInt(1)
    ELSE v

\* What start() does after its guard: init(), the atmosphere layers, the event
\* timeout, the positioned sources (the click source arms its timeout), the
\* spatial update loop and the fade in.
DwellStarted(d) ==
    [d EXCEPT !.audioContext = TRUE,
              !.isRunning = TRUE,
              !.droneNodes = @ + DroneVoices,
              !.textureNode = TRUE,
              !.eventTimeout = TRUE,
              !.sources = SourceCount,
              !.clickTimeout = TRUE,
              !.frames = @ + 1,
              !.masterTarget = 1]

\* start() without its guard.
DwellStartAlways(d) == DwellStarted(d)

\* The body of start().
DwellStartBody(d) == IF d.isRunning THEN d ELSE DwellStarted(d)

\* DwellAudio.start()
DwellStart ==
    /\ dwell.isRunning \/ dwell.droneNodes < MaxDwellStarts * DroneVoices
    /\ dwell' = DwellStartBody(dwell)
    /\ trig' = <<>>
    /\ UNCHANGED mk1Vars

\* DwellAudio.stop(): clearTimeout(eventTimeout), the sources' cleanup
\* (clearTimeout(clickTimeout)), the fade out.
DwellStop ==
    /\ dwell' = IF ~dwell.isRunning
                THEN dwell
                ELSE [dwell EXCEPT !.isRunning = FALSE,
                                   !.eventTimeout = FALSE,
                                   !.clickTimeout = FALSE,
                                   !.masterTarget = IF dwell.audioContext THEN 0 ELSE @]
    /\ trig' = <<>>
    /\ UNCHANGED mk1Vars

\* The timeout of scheduleEvent(): playEvent(), then scheduleEvent() again.
DwellEventFires ==
    /\ dwell.eventTimeout
    /\ IF ~dwell.isRunning
       THEN /\ dwell' = [dwell EXCEPT !.eventTimeout = FALSE]
            /\ trig' = <<>>
       ELSE /\ dwell' = dwell
            /\ trig' = <<DwellEventSound>>
    /\ UNCHANGED mk1Vars

\* The timeout of the click source's scheduleClick().
DwellClickFires ==
    /\ dwell.clickTimeout
    /\ IF ~dwell.isRunning
       THEN /\ dwell' = [dwell EXCEPT !.clickTimeout = FALSE]
            /\ trig' = <<>>
       ELSE /\ dwell' = dwell
            /\ trig' = <<DwellClickSound>>
    /\ UNCHANGED mk1Vars

\* requestAnimationFrame(updateSpatial): the loop goes on while running.
DwellFrame ==
    /\ dwell.frames > 0
    /\ dwell' = IF ~dwell.audioContext \/ ~dwell.isRunning
                THEN [dwell EXCEPT !.frames = @ - 1]
                ELSE dwell
    /\ trig' = <<>>
    /\ UNCHANGED mk1Vars

\* DwellAudio.setPosition(x, y)
DwellSetPosition(x, y) ==
    /\ dwell' = [dwell EXCEPT !.position = [x |-> DwellClamp(x), y |-> DwellClamp(y)]]
    /\ trig' = <<>>
    /\ UNCHANGED mk1Vars

\* DwellAudio.isRunning()
DwellIsRunning == dwell.isRunning

\* ------------------------------------------------------------ MK1 facade
\* Math.max(min, Math.min(max, value)) for whole bounds: NaN stays NaN.
clamp(value, min, max) ==
    IF value.type # "number" THEN JsNaN
    ELSE IF value.num < min * value.den THEN JsInt(min)
    ELSE IF value.num > max * value.den THEN JsInt(max)
    ELSE value

\* value * k and k + value for a whole k.
Times(value, k) ==
    IF value.type # "number" THEN JsNaN ELSE JsNumber(value.num * k, value.den)
Plus(k, value) ==
    IF value.type # "number" THEN JsNaN
    ELSE JsNumber(k * value.den + value.num, value.den)

\* Math.round(value): the nearest whole number, halves rounded up; NaN stays NaN.
MathRound(value) ==
    IF value.type # "number" THEN JsNaN
    ELSE JsInt((2 * value.num + value.den) \div (2 * value.den))

isValidPad(pad) == NumberIsInteger(pad) /\ IntegerOf(pad) >= 1 /\ IntegerOf(pad) <= 8
isValidTrack(track) ==
    NumberIsInteger(track) /\ IntegerOf(track) >= 1 /\ IntegerOf(track) <= 8

\* A step check that accepts every number from 1 to 16, whole or not.
isValidStepAnyNumber(step) ==
    step.type = "number" /\ step.num >= step.den /\ step.num <= 16 * step.den

isValidStep(step) ==
    NumberIsInteger(step) /\ IntegerOf(step) >= 1 /\ IntegerOf(step) <= 16

\* noteFrequencies, in whole hertz; 0 stands for undefined.
noteFrequencies(note) ==
    IF note = "C4" THEN 262 ELSE IF note = "A4" THEN 440 ELSE 0

\* String.prototype.toUpperCase on the strings the inputs are drawn from.
toUpperCase(str) ==
    CASE str = "a" -> "A"
      [] str = "b" -> "B"
      [] str = "c" -> "C"
      [] str = "d" -> "D"
      [] str = "x" -> "X"
      [] str = "ab" -> "AB"
      [] OTHER -> str

\* MK1.looper._normalizeSlot; "" stands for null.
normalizeSlot(slot) ==
    IF slot.type # "string" THEN ""
    ELSE IF toUpperCase(slot.s) \in Slots THEN toUpperCase(slot.s)
    ELSE ""

NoteInputs == {"C4", "H9"}
DurationMsInputs == {0, 20}
CellInputs == {<<JsInt(1), JsInt(16)>>, <<JsInt(2), JsInt(16)>>,
               <<JsInt(9), JsInt(1)>>, <<JsInt(1), JsInt(17)>>,
               <<JsNumber(3, 2), JsInt(16)>>, <<JsInt(1), JsNumber(31, 2)>>,
               <<JsString("1"), JsInt(16)>>}
ActiveInputs == {JsBoolean(TRUE), JsBoolean(FALSE), JsInt(1), JsString("")}
TrackInputs == {JsInt(1), JsInt(9), JsNumber(3, 2), JsString("1")}
\* Tempos below, inside and above the range, whole and not. NaN is left out:
\* what the tempo slider makes of it is decided by the browser and the markup.
BpmInputs == {JsInt(150), JsInt(250), JsNumber(301, 2), JsInt(0)}
\* Arguments of the setters that take a number from 0 to 1.
UnitInputs == {JsNumber(-1, 2), JsInt(0), JsNumber(1, 1000), JsNumber(1, 2), JsInt(1),
               JsInt(2), JsNaN}
ReleaseInputs == UnitInputs \ {JsNaN}
SlotArgInputs == {JsString("a"), JsString("B"), JsString("x"), JsString("ab"),
                  JsInt(1)}

\* initSystem() behind `if (!audioContext)`.
ensureInit == IF ~audioContext THEN initSystem ELSE UNCHANGED audioVars

\* MK1.drums.hit passes skipRecording = true.
HitSkip == TRUE

\* MK1.drums.hit(pad)
MK1DrumsHit(pad) ==
    /\ IF ~isValidPad(pad)
       THEN /\ trig' = <<>>
            /\ UNCHANGED <<audioVars, timers, loopSlots>>
       ELSE playDrum(drumMap[IntegerOf(pad)], HitSkip, timers)
    /\ UNCHANGED <<seqVars, recVars, activeSlot, waveType, otherVars, releaseTime>>

\* MK1.synth.play(note, duration), the duration given in milliseconds.
MK1SynthPlay(note, durationMs) ==
    /\ ensureInit
    /\ IF noteFrequencies(note) = 0
       THEN /\ trig' = <<>>
            /\ UNCHANGED <<timers, loopSlots, releaseTime>>
       ELSE /\ CanSchedule(timers, 1)
            /\ releaseTime' = IF (IF durationMs # 0 THEN durationMs ELSE releaseTime) > 50
                              THEN (IF durationMs # 0 THEN durationMs ELSE releaseTime)
                              ELSE 50
            /\ trig' = <<SynthSound(noteFrequencies(note), waveType)>>
            /\ loopSlots' = LogEvent(loopSlots,
                                     SynthEvent(noteFrequencies(note), waveType, EventTime),
                                     TRUE)
            /\ timers' = Append(timers, Timer("releaseRestore",
                                              DelayUnits(ReleaseRestoreMs), NoEvent,
                                              FALSE, "", releaseTime, 0))
    /\ UNCHANGED <<seqVars, recVars, activeSlot, waveType, otherVars>>

\* setTimeout(() => { releaseTime = originalRelease; }, 10)
ReleaseRestoreFires ==
    \E i \in DOMAIN timers :
        /\ IsNext(i)
        /\ timers[i].kind = "releaseRestore"
        /\ releaseTime' = timers[i].n
        /\ timers' = Remove(timers, i)
        /\ trig' = <<>>
        /\ UNCHANGED <<audioVars, seqVars, recVars, activeSlot, loopSlots, waveType, otherVars>>

\* MK1.sequencer.setStep(track, step, active); `!!active` is ToBoolean(active).
MK1SequencerSetStep(track, step, active) ==
    /\ sequencerSteps' = IF ~isValidTrack(track) \/ ~isValidStep(step)
                         THEN sequencerSteps
                         ELSE [sequencerSteps EXCEPT
                                 ![drumMap[IntegerOf(track)]][IntegerOf(step) - 1] =
                                     ToBoolean(active)]
    /\ trig' = <<>>
    /\ UNCHANGED <<audioVars, timers, sequencerHistory, sequencerHistoryIndex,
                   currentStep, isPlaying, sequencerInterval, tempo, recVars, activeSlot,
                   loopSlots, waveType, otherVars, releaseTime>>

\* MK1.sequencer.getStep(track, step), read in the pattern `steps`.
MK1SequencerGetStep(steps, track, step) ==
    IF ~isValidTrack(track) \/ ~isValidStep(step)
    THEN FALSE
    ELSE steps[drumMap[IntegerOf(track)]][IntegerOf(step) - 1]

\* MK1.sequencer.clearTrack(track)
MK1SequencerClearTrack(track) ==
    /\ sequencerSteps' = IF ~isValidTrack(track)
                         THEN sequencerSteps
                         ELSE [sequencerSteps EXCEPT
                                 ![drumMap[IntegerOf(track)]] = [i \in Steps |-> FALSE]]
    /\ trig' = <<>>
    /\ UNCHANGED <<audioVars, timers, sequencerHistory, sequencerHistoryIndex,
                   currentStep, isPlaying, sequencerInterval, tempo, recVars, activeSlot,
                   loopSlots, waveType, otherVars, releaseTime>>

\* MK1.sequencer.start()
MK1SequencerStart ==
    /\ IF ~isPlaying
       THEN /\ ensureInit
            /\ toggleSequencerBody(TRUE, timers)
       ELSE UNCHANGED <<audioVars, timers, isPlaying, currentStep, sequencerInterval,
                        isRecording, recordingAge, mediaRecorder, recorders, loopSlots>>
    /\ stopRequested' = FALSE
    /\ trig' = <<>>
    /\ UNCHANGED <<sequencerSteps, sequencerHistory, sequencerHistoryIndex, tempo,
                   isOverdub, activeSlot, waveType, quietVars, releaseTime>>

\* MK1.sequencer.stop()
MK1SequencerStop ==
    /\ IF isPlaying
       THEN stopSequencer(TRUE, timers)
       ELSE UNCHANGED <<timers, isPlaying, currentStep, sequencerInterval, isRecording,
                        recordingAge, mediaRecorder, recorders, loopSlots>>
    /\ stopRequested' = TRUE
    /\ trig' = <<>>
    /\ UNCHANGED <<audioVars, sequencerSteps, sequencerHistory,
                   sequencerHistoryIndex, tempo, isOverdub, activeSlot, waveType, quietVars,
                   releaseTime>>

\* MK1.tempo.setBPM(value): the slider is set and its input event dispatched.
MK1TempoSetBPM(value) == tempoInput(IntegerOf(MathRound(clamp(value, 60, 200))))

\* MK1.tempo.getBPM(): parseInt of the slider's value.
MK1TempoGetBPM == tempo

\* MK1.synth.setAttack(value)
MK1SynthSetAttack(value) ==
    /\ attackTime' = MathRound(Times(clamp(value, 0, 1), 500))
    /\ trig' = <<>>
    /\ UNCHANGED <<audioVars, timers, seqVars, recVars, activeSlot, loopSlots, waveType,
                   releaseTime, crushAmount, setCrushAmount, dwell, edits, stopRequested>>

\* MK1.synth.setRelease(value), for the finite numbers of ReleaseInputs.
MK1SynthSetRelease(value) ==
    /\ releaseTime' = IntegerOf(MathRound(Plus(50, Times(clamp(value, 0, 1), 1950))))
    /\ trig' = <<>>
    /\ UNCHANGED <<audioVars, timers, seqVars, recVars, activeSlot, loopSlots, waveType,
                   otherVars>>

\* setupBitcrusher() settles: window.setCrushAmount is defined.
BitcrusherReady ==
    /\ audioContext
    /\ ~setCrushAmount
    /\ setCrushAmount' = TRUE
    /\ trig' = <<>>
    /\ UNCHANGED <<audioVars, timers, seqVars, recVars, activeSlot, loopSlots, waveType,
                   releaseTime, attackTime, crushAmount, dwell, edits, stopRequested>>

\* MK1.fx.setCrush(value)
MK1FxSetCrush(value) ==
    /\ crushAmount' = IF setCrushAmount
                      THEN MathRound(Times(clamp(value, 0, 1), 16))
                      ELSE crushAmount
    /\ trig' = <<>>
    /\ UNCHANGED <<audioVars, timers, seqVars, recVars, activeSlot, loopSlots, waveType,
                   releaseTime, attackTime, setCrushAmount, dwell, edits, stopRequested>>

\* MK1.looper.record(slot)
MK1LooperRecord(slot) ==
    /\ IF normalizeSlot(slot) = ""
       THEN UNCHANGED <<audioVars, recVars, activeSlot, loopSlots>>
       ELSE /\ ensureInit
            /\ CanRecord
            /\ activeSlot' = normalizeSlot(slot)
            /\ isRecording' = TRUE
            /\ isOverdub' = FALSE
            /\ recordingAge' = 0
            /\ loopSlots' = [loopSlots EXCEPT
                               ![normalizeSlot(slot)].loop = RecordStartLoop(@)]
            /\ recorders' = startMediaRecording(recorders, "record")
            /\ mediaRecorder' = FreshId
    /\ trig' = <<>>
    /\ UNCHANGED <<timers, seqVars, waveType, otherVars, releaseTime>>

\* MK1.looper.stopRecording()
MK1LooperStopRecording ==
    /\ isRecording' = FALSE
    /\ isOverdub' = FALSE
    /\ recorders' = IF isRecording \/ isOverdub
                    THEN stopMediaRecorder(recorders, mediaRecorder)
                    ELSE recorders
    /\ trig' = <<>>
    /\ UNCHANGED <<audioVars, timers, seqVars, recordingAge, mediaRecorder,
                   activeSlot, loopSlots, waveType, otherVars, releaseTime>>

\* MK1.looper.addLayer(slot)
MK1LooperAddLayer(slot) ==
    /\ IF normalizeSlot(slot) = ""
       THEN UNCHANGED <<audioVars, recVars, activeSlot, loopSlots>>
       ELSE /\ ensureInit
            /\ activeSlot' = normalizeSlot(slot)
            /\ IF ~isOverdub /\ ~isRecording
               THEN /\ CanRecord
                    /\ isOverdub' = TRUE
                    /\ recordingAge' = 0
                    /\ loopSlots' = [loopSlots EXCEPT
                                       ![normalizeSlot(slot)].loop = OverdubStartLoop(@)]
                    /\ recorders' = startMediaRecording(recorders, "overdub")
                    /\ mediaRecorder' = FreshId
                    /\ UNCHANGED isRecording
               ELSE UNCHANGED <<recVars, loopSlots>>
    /\ trig' = <<>>
    /\ UNCHANGED <<timers, seqVars, waveType, otherVars, releaseTime>>

\* let maxTime = 0; loop.forEach(event => { if (event.time > maxTime) maxTime = ... })
RECURSIVE MaxEventTime(_)
MaxEventTime(loop) ==
    IF loop = <<>> THEN 0
    ELSE IF Head(loop).time > MaxEventTime(Tail(loop))
         THEN Head(loop).time
         ELSE MaxEventTime(Tail(loop))

\* The timers MK1.looper.play(slot) creates, in order: source.onended (at the end of
\* the buffer), one replay timer per logged event, the isPlaying reset.
PlayTimers(ts, slot) ==
    LET sd == loopSlots[slot]
        ended == IF sd.audioBuffer # 0
                 THEN <<Timer("ended", sd.duration, NoEvent, FALSE, slot, 0, 0)>>
                 ELSE <<>>
        replay == IF Len(sd.loop) > 0
                  THEN ReplayTimers(sd.loop, slot, FreshCall(ts))
                           \o <<Timer("clearPlaying",
                                      MaxEventTime(sd.loop) + DelayUnits(1000),
                                      NoEvent, FALSE, slot, 0, 0)>>
                  ELSE <<>>
    IN  ts \o ended \o replay

\* MK1.looper.play(slot), with room for `room` pending timers.
looperPlay(slot, room) ==
    /\ IF normalizeSlot(slot) = ""
       THEN /\ trig' = <<>>
            /\ UNCHANGED <<audioVars, timers, loopSlots>>
       ELSE /\ ensureInit
            /\ timers' = PlayTimers(timers, normalizeSlot(slot))
            /\ Len(timers') <= room
            /\ trig' = BufferSounds(<<normalizeSlot(slot)>>)
            /\ loopSlots' =
                  [loopSlots EXCEPT ![normalizeSlot(slot)].isPlaying =
                      IF loopSlots[normalizeSlot(slot)].audioBuffer # 0
                           \/ Len(loopSlots[normalizeSlot(slot)].loop) > 0
                      THEN TRUE ELSE @]
    /\ UNCHANGED <<seqVars, recVars, activeSlot, waveType, otherVars, releaseTime>>

\* MK1.looper.play(slot)
MK1LooperPlay(slot) == looperPlay(slot, MaxTimers)

\* MK1.looper.play(slot) while the timers of earlier calls may be pending.
MK1LooperPlayAgain(slot) == looperPlay(slot, MaxReplayTimers)

\* source.onended and the isPlaying reset timer of MK1.looper.play: both run
\* slotData.isPlaying = false on the slot object captured by the call.
PlayingResetFires(kind) ==
    \E i \in DOMAIN timers :
        /\ IsNext(i)
        /\ timers[i].kind = kind
        /\ timers' = Remove(timers, i)
        /\ loopSlots' = [loopSlots EXCEPT ![timers[i].slot].isPlaying = FALSE]
        /\ trig' = <<>>
        /\ UNCHANGED <<audioVars, seqVars, recVars, activeSlot, waveType, otherVars, releaseTime>>

SourceEnded == PlayingResetFires("ended")
ClearPlayingFires == PlayingResetFires("clearPlaying")

\* MK1.looper.stop(slot)
MK1LooperStop(slot) ==
    /\ loopSlots' = IF normalizeSlot(slot) = ""
                    THEN loopSlots
                    ELSE [loopSlots EXCEPT ![normalizeSlot(slot)].isPlaying = FALSE]
    /\ trig' = <<>>
    /\ UNCHANGED <<audioVars, timers, seqVars, recVars, activeSlot, waveType, otherVars,
                   releaseTime>>

\* MK1.looper.clear(slot)
MK1LooperClear(slot) ==
    /\ loopSlots' = IF normalizeSlot(slot) = ""
                    THEN loopSlots
                    ELSE [loopSlots EXCEPT ![normalizeSlot(slot)] = EmptySlot]
    /\ trig' = <<>>
    /\ UNCHANGED <<audioVars, timers, seqVars, recVars, activeSlot, waveType, otherVars,
                   releaseTime>>

\* MK1.looper.stopAll()
MK1LooperStopAll ==
    /\ loopSlots' = [s \in Slots |-> [loopSlots[s] EXCEPT !.isPlaying = FALSE]]
    /\ trig' = <<>>
    /\ UNCHANGED <<audioVars, timers, seqVars, recVars, activeSlot, waveType, otherVars,
                   releaseTime>>

\* MK1.looper.isPlaying(slot), read in the slots `ls`.
MK1LooperIsPlaying(ls, slot) ==
    IF normalizeSlot(slot) = "" THEN FALSE ELSE ls[normalizeSlot(slot)].isPlaying

\* MK1.looper.getSlotStatus(slot), read in the slots `ls`; the record with
\* status "null" stands for null.
MK1LooperGetSlotStatus(ls, slot) ==
    IF normalizeSlot(slot) = ""
    THEN [status |-> "null", hasContent |-> FALSE, isPlaying |-> FALSE, duration |-> 0,
          events |-> 0, hasAudio |-> FALSE]
    ELSE LET slotData == ls[normalizeSlot(slot)]
         IN  [status |-> "object",
              hasContent |-> Len(slotData.loop) > 0 \/ slotData.audioBuffer # 0,
              isPlaying |-> slotData.isPlaying,
              duration |-> slotData.duration,
              events |-> Len(slotData.loop),
              hasAudio |-> slotData.audioBuffer # 0]

InitBtnClick ==
    /\ initSystem
    /\ trig' = <<>>
    /\ UNCHANGED <<timers, seqVars, recVars, activeSlot, loopSlots, waveType, otherVars,
                   releaseTime>>

\* ----------------------------------------------------------- specifications
\* The sequencer: transport, clock, pattern edits, tempo changes.
NextSeq ==
    \/ InitBtnClick
    \/ PlaySeqBtnClick
    \/ SpaceKey
    \/ RetryToggleFires
    \/ SeqTick
    \/ \E bpm \in TempoInputs : TempoSlider(bpm)
    \/ TempoRestartFires
    \/ \E c \in CellInputs, a \in ActiveInputs : MK1SequencerSetStep(c[1], c[2], a)
    \/ MK1SequencerStart
    \/ MK1SequencerStop
    \/ Advance

SpecSeq == Init /\ [][NextSeq]_vars

\* Every entry point that initialises the audio system on demand, with its retry.
\* The pads, the keys and the transport and recording buttons are used while the
\* system is not initialised; the init button, the play buttons and the facade are
\* used at any time.
NextInit ==
    \/ InitBtnClick
    \/ ~audioContext /\ \E d \in DrumInputs : PadClick(d)
    \/ ~audioContext /\ \E f \in FreqInputs : KeyClick(f)
    \/ ~audioContext /\ PlaySeqBtnClick
    \/ ~audioContext /\ RecordBtnClick
    \/ ~audioContext /\ OverdubBtnClick
    \/ PlayLoopBtnClick
    \/ PlayAllBtnClick
    \/ RetryDrumFires
    \/ RetryNoteFires
    \/ RetryToggleFires
    \/ RetryRecordBtnFires
    \/ RetryOverdubBtnFires
    \/ RetryPlayLoopBtnFires
    \/ RetryPlayAllBtnFires
    \/ SeqTick
    \/ ReplayFires
    \/ \E p \in PadInputs : MK1DrumsHit(p)
    \/ \E n \in NoteInputs : MK1SynthPlay(n, 0)
    \/ ReleaseRestoreFires
    \/ MK1SequencerStart
    \/ \E slot \in SlotArgInputs : MK1LooperRecord(slot)
    \/ \E slot \in SlotArgInputs : MK1LooperAddLayer(slot)
    \/ \E slot \in SlotArgInputs : MK1LooperPlay(slot)
    \/ Advance

SpecInit == Init /\ [][NextInit]_vars

\* Triggers from the pads, the keys and the facade, with manual recording.
NextTrig ==
    \/ InitBtnClick
    \/ \E d \in DrumInputs : PadClick(d)
    \/ \E f \in FreqInputs : KeyClick(f)
    \/ RetryDrumFires
    \/ RetryNoteFires
    \/ RecordBtnClick
    \/ RetryRecordBtnFires
    \/ OverdubBtnClick
    \/ RetryOverdubBtnFires
    \/ \E slot \in SlotInputs : SlotBtnClick(slot)
    \/ \E p \in PadInputs : MK1DrumsHit(p)
    \/ Advance

SpecTrig == Init /\ [][NextTrig]_vars

\* The facade alone: its triggers are the only ones, its looper calls the only
\* way a recording starts or stops.
NextFacade ==
    \/ \E p \in PadInputs : MK1DrumsHit(p)
    \/ \E n \in NoteInputs, d \in DurationMsInputs : MK1SynthPlay(n, d)
    \/ RetryDrumFires
    \/ ReleaseRestoreFires
    \/ \E slot \in SlotArgInputs : MK1LooperRecord(slot)
    \/ \E slot \in SlotArgInputs : MK1LooperAddLayer(slot)
    \/ MK1LooperStopRecording
    \/ Advance

SpecFacade == Init /\ [][NextFacade]_vars

\* The sequencer driven through the facade only.
NextApiSeq ==
    \/ MK1SequencerStart
    \/ \E value \in BpmInputs : MK1TempoSetBPM(value)
    \/ MK1SequencerStop
    \/ TempoRestartFires
    \/ SeqTick
    \/ Advance

SpecApiSeq == Init /\ [][NextApiSeq]_vars

\* Stop requests against the restart timer of a tempo change; the audio is
\* initialised before any toggle, so no toggle is retried.
NextStopFinal ==
    \/ InitBtnClick
    \/ audioContext /\ PlaySeqBtnClick
    \/ audioContext /\ SpaceKey
    \/ \E bpm \in TempoInputs : TempoSlider(bpm)
    \/ TempoRestartFires
    \/ MK1SequencerStart
    \/ MK1SequencerStop
    \/ SeqTick
    \/ Advance

SpecStopFinal == Init /\ [][NextStopFinal]_vars

\* Manual recording sessions that all start in slot A, with the slot buttons
\* pressed at any moment; the audio is initialised first.
NextOneSlot ==
    \/ InitBtnClick
    \/ audioContext /\ (isRecording \/ activeSlot = "A") /\ RecordBtnClick
    \/ \E slot \in SlotInputs : SlotBtnClick(slot)
    \/ \E d \in DrumInputs : audioContext /\ PadClick(d)
    \/ RecorderStopFires
    \/ \E ok \in BOOLEAN, d \in BufferDurationInputs : DecodeSettles(ok, d)
    \/ Advance

SpecOneSlot == Init /\ [][NextOneSlot]_vars

\* Recording a slot and replaying it.
NextReplay ==
    \/ InitBtnClick
    \/ \E d \in DrumInputs : PadClick(d)
    \/ \E f \in FreqInputs : KeyClick(f)
    \/ RecordBtnClick
    \/ OverdubBtnClick
    \/ PlayLoopBtnClick
    \/ RetryPlayLoopBtnFires
    \/ PlayAllBtnClick
    \/ RetryPlayAllBtnFires
    \/ \E slot \in SlotArgInputs : MK1LooperPlay(slot)
    \/ ClearPlayingFires
    \/ ReplayFires
    \/ Advance

SpecReplay == Init /\ [][NextReplay]_vars

\* Recording notes, changing the waveform, replaying.
NextWave ==
    \/ InitBtnClick
    \/ \E d \in DrumInputs : PadClick(d)
    \/ \E f \in FreqInputs : KeyClick(f)
    \/ \E w \in WaveInputs : SelectWave(w)
    \/ RecordBtnClick
    \/ PlayLoopBtnClick
    \/ RetryPlayLoopBtnFires
    \/ ReplayFires
    \/ Advance

SpecWave == Init /\ [][NextWave]_vars

\* Recording and overdub sessions on the slots' event lists.
NextLayer ==
    \/ InitBtnClick
    \/ \E d \in DrumInputs : PadClick(d)
    \/ RecordBtnClick
    \/ OverdubBtnClick
    \/ SpaceKey
    \/ RetryToggleFires
    \/ SeqTick
    \/ \E slot \in SlotArgInputs : MK1LooperRecord(slot)
    \/ \E slot \in SlotArgInputs : MK1LooperAddLayer(slot)
    \/ MK1LooperStopRecording
    \/ Advance

SpecLayer == Init /\ [][NextLayer]_vars

\* Recording and overdub sessions and what becomes of their raw captures.
NextCapture ==
    \/ InitBtnClick
    \/ RecordBtnClick
    \/ OverdubBtnClick
    \/ \E slot \in SlotArgInputs : MK1LooperRecord(slot)
    \/ \E slot \in SlotArgInputs : MK1LooperAddLayer(slot)
    \/ MK1LooperStopRecording
    \/ RecorderStopFires
    \/ \E ok \in BOOLEAN, d \in BufferDurationInputs : DecodeSettles(ok, d)
    \/ Advance

SpecCapture == Init /\ [][NextCapture]_vars

\* The arguments of the calls below: one valid cell, one valid slot, and the
\* invalid ones.
ArgsCellInputs == CellInputs \ {<<JsInt(2), JsInt(16)>>}
ArgsSlotInputs == SlotArgInputs \ {JsString("B")}

\* The facade called with valid and invalid arguments while a pattern, a
\* recording and a replay exist.
NextArgs ==
    \/ \E p \in PadInputs : MK1DrumsHit(p)
    \/ RetryDrumFires
    \/ \E c \in ArgsCellInputs, a \in ActiveInputs : MK1SequencerSetStep(c[1], c[2], a)
    \/ \E t \in TrackInputs : MK1SequencerClearTrack(t)
    \/ \E slot \in ArgsSlotInputs : MK1LooperRecord(slot)
    \/ \E slot \in ArgsSlotInputs : MK1LooperAddLayer(slot)
    \/ MK1LooperStopRecording
    \/ \E slot \in ArgsSlotInputs : MK1LooperPlay(slot)
    \/ \E slot \in ArgsSlotInputs : MK1LooperStop(slot)
    \/ \E slot \in ArgsSlotInputs : MK1LooperClear(slot)
    \/ ReplayFires
    \/ ClearPlayingFires
    \/ Advance

SpecArgs == Init /\ [][NextArgs]_vars

\* The numeric parameters set through the facade while the sequencer runs.
NextParams ==
    \/ InitBtnClick
    \/ BitcrusherReady
    \/ \E value \in BpmInputs : MK1TempoSetBPM(value)
    \/ \E value \in UnitInputs : MK1SynthSetAttack(value)
    \/ \E value \in ReleaseInputs : MK1SynthSetRelease(value)
    \/ \E value \in UnitInputs : MK1FxSetCrush(value)
    \/ MK1SequencerStart
    \/ MK1SequencerStop
    \/ TempoRestartFires
    \/ SeqTick
    \/ Advance

SpecParams == Init /\ [][NextParams]_vars

\* The cells and tracks a script edits: seven valid cells on three tracks and
\* the invalid ones.
GridCellInputs ==
    {<<JsInt(t), JsInt(st)>> : t \in {1, 8}, st \in {1, 2, 16}} \cup CellInputs
GridTrackInputs == {JsInt(2), JsInt(8)} \cup TrackInputs

\* The pattern edited through the facade.
NextCells ==
    \/ \E c \in GridCellInputs, a \in ActiveInputs : MK1SequencerSetStep(c[1], c[2], a)
    \/ \E t \in GridTrackInputs : MK1SequencerClearTrack(t)

SpecCells == Init /\ [][NextCells]_vars

\* The cells a user clicks while editing a pattern.
EditDrumInputs == {"kick", "snare", "hihat"}
EditStepInputs == {0, 1, 15}

\* Step clicks followed by undos.
NextUndo ==
    \/ \E d \in EditDrumInputs, i \in EditStepInputs : ShortHistoryStepClick(d, i)
    \/ UndoKey

SpecUndo == Init /\ [][NextUndo]_vars

\* Step clicks, undos and redos.
NextUndoRedo ==
    \/ \E d \in EditDrumInputs, i \in EditStepInputs : ShortHistoryStepClick(d, i)
    \/ UndoKey
    \/ RedoKey

SpecUndoRedo == Init /\ [][NextUndoRedo]_vars

\* Undo and redo are pressed while the history is short or (nearly) full.
HistoryNearEnds ==
    \/ Len(sequencerHistory) <= MaxHistoryLen
    \/ Len(sequencerHistory) >= MAX_HISTORY - 1

\* One step clicked again and again until the history is full, with undos and
\* redos.
NextHistory ==
    \/ StepClick("kick", 0)
    \/ HistoryNearEnds /\ UndoKey
    \/ HistoryNearEnds /\ RedoKey

SpecHistory == Init /\ [][NextHistory]_vars

\* Durations of scripted notes: none, 0.1 s and 0.2 s.
NoteDurationMsInputs == {0, 100, 200}

\* Notes played from a script, close together or apart.
NextSynth ==
    \/ \E n \in NoteInputs, d \in NoteDurationMsInputs : MK1SynthPlay(n, d)
    \/ ReleaseRestoreFires
    \/ Advance

SpecSynth == Init /\ [][NextSynth]_vars

\* The slots a script replays and stops.
StopSlotInputs == {JsString("a"), JsString("B")}

\* No timer of an earlier play call on the slot is pending.
SlotIdle(slot) == \A i \in DOMAIN timers : timers[i].slot # normalizeSlot(slot)

\* Slots recorded from the pads, replayed while idle, then stopped or cleared.
NextStop ==
    \/ \E d \in DrumInputs : PadClick(d)
    \/ RetryDrumFires
    \/ \E slot \in StopSlotInputs : MK1LooperRecord(slot)
    \/ MK1LooperStopRecording
    \/ \E slot \in StopSlotInputs : SlotIdle(slot) /\ MK1LooperPlay(slot)
    \/ \E slot \in StopSlotInputs : MK1LooperStop(slot)
    \/ MK1LooperStopAll
    \/ \E slot \in StopSlotInputs : MK1LooperClear(slot)
    \/ ReplayFires
    \/ ClearPlayingFires
    \/ Advance

SpecStop == Init /\ [][NextStop]_vars

\* The dwell page: started and stopped, the cursor moving, its timers running.
NextDwell ==
    \/ DwellStart
    \/ DwellStop
    \/ DwellEventFires
    \/ DwellClickFires
    \/ DwellFrame
    \/ \E x \in PositionInputs, y \in PositionInputs : DwellSetPosition(x, y)

SpecDwell == Init /\ [][NextDwell]_vars

\* A slot recorded from the pads and replayed, once or again while an earlier
\* replay runs; it is never stopped or cleared and holds no audio buffer.
NextOverlap ==
    \/ MK1LooperRecord(JsString("a"))
    \/ \E d \in DrumInputs : PadClick(d)
    \/ MK1LooperStopRecording
    \/ MK1LooperPlayAgain(JsString("a"))
    \/ ReplayFires
    \/ ClearPlayingFires
    \/ Advance

SpecOverlap == Init /\ [][NextOverlap]_vars

\* The tempo moved while the sequencer plays and records, among the record
\* button, the overdub button, the play button, the space key and the pads.
NextTempoRec ==
    \/ InitBtnClick
    \/ SpaceKey
    \/ PlaySeqBtnClick
    \/ RetryToggleFires
    \/ \E d \in DrumInputs : PadClick(d)
    \/ RetryDrumFires
    \/ audioContext /\ RecordBtnClick
    \/ audioContext /\ OverdubBtnClick
    \/ \E bpm \in TempoInputs : isPlaying /\ isRecording /\ TempoSlider(bpm)
    \/ TempoRestartFires
    \/ SeqTick
    \/ Advance

SpecTempoRec == Init /\ [][NextTempoRec]_vars

\* Everything that starts or stops a recording or an overdub, from the page
\* and from a script.
NextSessions ==
    \/ RecordBtnClick
    \/ RetryRecordBtnFires
    \/ OverdubBtnClick
    \/ RetryOverdubBtnFires
    \/ SpaceKey
    \/ PlaySeqBtnClick
    \/ RetryToggleFires
    \/ \E bpm \in TempoInputs : TempoSlider(bpm)
    \/ TempoRestartFires
    \/ MK1SequencerStart
    \/ MK1SequencerStop
    \/ \E slot \in ArgsSlotInputs : MK1LooperRecord(slot)
    \/ \E slot \in ArgsSlotInputs : MK1LooperAddLayer(slot)
    \/ MK1LooperStopRecording
    \/ SeqTick
    \/ Advance

SpecSessions == Init /\ [][NextSessions]_vars

\* ------------------------------------------------------------------ C1
\* The step pointer after n ticks from `step`.
RECURSIVE AfterTicks(_, _)
AfterTicks(step, n) == IF n = 0 THEN step ELSE AfterTicks(NextStep(step), n - 1)

\* stopSequencer ran in this step: the transport is stopped and the pointer reset.
StopSequencerRan == ~isPlaying' /\ currentStep' = 0

\* C1: currentStep is always an integer in 0..15; a timer tick replaces it by
\* (currentStep + 1) mod 16, stopSequencer sets it to 0, no other operation changes
\* it, and 16 consecutive ticks bring it back to its starting value.
C1_StepPointer ==
    /\ [](currentStep \in 0 .. 15)
    /\ [][IF SeqTick
          THEN currentStep' = (currentStep + 1) % 16
          ELSE currentStep' = currentStep \/ StopSequencerRan]_vars
    /\ [](AfterTicks(currentStep, 16) = currentStep)

\* The tick at step 15 has fired both of its drums and wrapped the pointer to 0.
C1_Witness ==
    /\ isPlaying
    /\ currentStep = 0
    /\ trig = <<DrumSound("kick"), DrumSound("snare")>>

\* ------------------------------------------------------------------ C2
\* C2: on every sequencer tick a drum trigger is fired for exactly the tracks whose
\* cell at the pre-advance currentStep is true, once each; the other tracks fire
\* nothing.
C2_TickFiresActiveCells ==
    [][SeqTick =>
          /\ \A d \in Drums :
                sequencerSteps[d][currentStep]
                    <=> (\E k \in DOMAIN trig' : trig'[k] = DrumSound(d))
          /\ Len(trig') = Cardinality({d \in Drums : sequencerSteps[d][currentStep]})
          /\ \A k \in DOMAIN trig' : trig'[k].type = "drum"]_vars

\* The tick at step 15 has fired the kick, whose cell is set, and not the snare,
\* whose cell is clear.
C2_Witness ==
    /\ isPlaying
    /\ currentStep = 0
    /\ sequencerSteps["kick"][15]
    /\ ~sequencerSteps["snare"][15]
    /\ trig = <<DrumSound("kick")>>

\* ------------------------------------------------------------------ C3
\* C3: the audio context and the effects graph are constructed at most once: the
\* construction branch of initSystem has run exactly once as soon as the context
\* exists, and no later call rebuilds or replaces masterGain.
C3_GraphBuiltOnce ==
    /\ [](initCount <= 1)
    /\ [](audioContext => initCount = 1 /\ masterGain # 0)
    /\ [][masterGain # 0 => masterGain' = masterGain]_vars

\* A key pressed before initialisation has built the graph, and its retry has
\* played the note on that graph.
C3_Witness ==
    /\ initCount = 1
    /\ masterGain = 1
    /\ timers = <<>>
    /\ trig = <<SynthSound(262, "sine")>>

\* ------------------------------------------------------------------ C4
\* The step runs playDrum(type, skipRecording) on the initialised system.
PlayDrumRuns(type, skipRecording) ==
    /\ audioContext
    /\ \E ts \in {timers} \cup {Remove(timers, i) : i \in DOMAIN timers} :
          playDrum(type, skipRecording, ts)

\* The step runs playNote(freq, skipRecording) on the initialised system.
PlayNoteRuns(freq, skipRecording) ==
    /\ audioContext
    /\ \E ts \in {timers} \cup {Remove(timers, i) : i \in DOMAIN timers} :
          playNote(freq, skipRecording, ts)

\* Exactly one descriptor is appended, to the active slot.
AppendedOne(ev) ==
    /\ loopSlots'[activeSlot].loop = Append(loopSlots[activeSlot].loop, ev)
    /\ \A s \in Slots \ {activeSlot} : loopSlots'[s] = loopSlots[s]

\* C4: a trigger is logged exactly when a recording is active: playDrum or playNote
\* with skipRecording = false while isRecording or isOverdub appends one descriptor
\* (type, sound or freq, time = currentTime - recordingStart >= 0) to the active
\* slot; otherwise no slot's event list changes.
C4_LoggedWhenRecording ==
    [][\A skipRecording \in BOOLEAN :
          /\ \A type \in Drums :
                PlayDrumRuns(type, skipRecording) =>
                    IF ~skipRecording /\ (isRecording \/ isOverdub)
                    THEN /\ recordingAge >= 0
                         /\ AppendedOne([type |-> "drum", sound |-> type, freq |-> 0,
                                         wave |-> "none", time |-> recordingAge])
                    ELSE \A s \in Slots : loopSlots'[s].loop = loopSlots[s].loop
          /\ \A freq \in FreqInputs :
                PlayNoteRuns(freq, skipRecording) =>
                    IF ~skipRecording /\ (isRecording \/ isOverdub)
                    THEN /\ recordingAge >= 0
                         /\ AppendedOne([type |-> "synth", sound |-> "none",
                                         freq |-> freq, wave |-> waveType,
                                         time |-> recordingAge])
                    ELSE \A s \in Slots : loopSlots'[s].loop = loopSlots[s].loop]_vars

\* During an overdub on slot B a key has been logged after an earlier descriptor,
\* one clock unit into the session.
C4_Witness ==
    /\ isOverdub
    /\ activeSlot = "B"
    /\ trig = <<SynthSound(262, "sine")>>
    /\ Len(loopSlots["B"].loop) = 2
    /\ loopSlots["B"].loop[2] = SynthEvent(262, "sine", 1)

\* ------------------------------------------------------------------ C5
\* The events of the pending replay timers, with their call numbers, in creation
\* order.
ReplayEvents(ts) ==
    LET rs == SelectSeq(ts, LAMBDA t : t.kind = "replay")
    IN  [k \in DOMAIN rs |-> <<rs[k].n, rs[k].ev>>]

\* The events the timers appended by this step replay, in creation order.
NewReplays ==
    LET rs == SelectSeq(SubSeq(timers', Len(timers) + 1, Len(timers')),
                        LAMBDA t : t.kind = "replay")
    IN  [k \in DOMAIN rs |-> rs[k].ev]

IsPrefix(p, q) == Len(p) <= Len(q) /\ SubSeq(q, 1, Len(p)) = p

\* What a logged event sounds like when it is triggered as it was stored.
StoredSound(ev) ==
    IF ev.type = "drum" THEN [type |-> "drum", sound |-> ev.sound, freq |-> 0,
                              wave |-> "none"]
    ELSE [type |-> "synth", sound |-> "none", freq |-> ev.freq, wave |-> ev.wave]

\* C5: replaying a slot schedules every event of the slot's list once; each
\* scheduled event is triggered once, when no event of the same replay with a smaller
\* time offset is still pending, and is dropped by nothing but its own trigger; the
\* replay appends to no slot's event list, recording or overdub active or not.
C5_ReplayOnceInOrder ==
    [][/\ (audioContext /\ PlayLoopBtnClick) => NewReplays = loopSlots[activeSlot].loop
       /\ (audioContext /\ PlayAllBtnClick) =>
              NewReplays = loopSlots["A"].loop \o loopSlots["B"].loop
                               \o loopSlots["C"].loop \o loopSlots["D"].loop
       /\ \A slot \in Slots :
              MK1LooperPlay(JsString(slot)) => NewReplays = loopSlots[slot].loop
       /\ IF ReplayFires
          THEN \E i \in DOMAIN timers :
                  /\ timers[i].kind = "replay"
                  /\ timers' = Remove(timers, i)
                  /\ Len(trig') = 1
                  /\ trig'[1].type = timers[i].ev.type
                  /\ trig'[1].sound = timers[i].ev.sound
                  /\ trig'[1].freq = timers[i].ev.freq
                  /\ \A j \in DOMAIN timers :
                        (timers[j].kind = "replay" /\ timers[j].n = timers[i].n)
                            => timers[j].ev.time >= timers[i].ev.time
                  /\ \A s \in Slots : loopSlots'[s].loop = loopSlots[s].loop
          ELSE IsPrefix(ReplayEvents(timers), ReplayEvents(timers'))]_vars

\* An overdub is running on a list recorded as (kick at 1, note at 0); its replay
\* has triggered the note and then the kick, and the list is as it was.
C5_Witness ==
    /\ isOverdub
    /\ loopSlots["A"].loop = <<DrumEvent("kick", 1), SynthEvent(262, "sine", 0)>>
    /\ timers = <<>>
    /\ trig = <<DrumSound("kick")>>

\* ------------------------------------------------------------------ C6
\* C6: a replayed event sounds as its descriptor says: a synth event with the stored
\* freq and the stored wave, whatever waveform is selected at replay time, a drum
\* event with its stored sound.
C6_ReplayUsesStoredWave ==
    [][ReplayFires =>
          \E i \in DOMAIN timers :
              /\ timers[i].kind = "replay"
              /\ timers' = Remove(timers, i)
              /\ trig' = <<StoredSound(timers[i].ev)>>]_vars

\* ------------------------------------------------------------------ C7
\* C7: with MK1.drums.hit and MK1.synth.play as the only triggers, no descriptor is
\* ever appended to a slot's event list, whenever a recording is started.
C7_FacadeNeverLogs == \A s \in Slots : loopSlots[s].loop = <<>>

\* ------------------------------------------------------------------ C8
\* C8: driven only by MK1.sequencer.start, MK1.tempo.setBPM and MK1.sequencer.stop
\* and their delayed timers, the program never starts a recording.
C8_FacadeRunNeverRecords == ~isRecording /\ mediaRecorder = 0

\* ------------------------------------------------------------------ C9
\* A recording starts in this step: a recorder is created for a record session.
RecordingStarts == mediaRecorder' # mediaRecorder /\ isRecording'

\* An overdub starts in this step: a recorder is created for an overdub session.
OverdubStarts == mediaRecorder' # mediaRecorder /\ isOverdub'

\* C9: starting a recording empties the target slot's event list and starting an
\* overdub keeps it; neither changes another slot's list; short of a new recording,
\* every descriptor of a list stays in it, in the same order, while the overdub runs
\* and after it is stopped.
C9_OverdubKeepsEvents ==
    [][/\ RecordingStarts =>
              /\ loopSlots'[activeSlot'].loop = <<>>
              /\ \A s \in Slots \ {activeSlot'} : loopSlots'[s].loop = loopSlots[s].loop
       /\ OverdubStarts => \A s \in Slots : loopSlots'[s].loop = loopSlots[s].loop
       /\ ~RecordingStarts =>
              \A s \in Slots : IsPrefix(loopSlots[s].loop, loopSlots'[s].loop)
       /\ (isOverdub /\ ~isOverdub' /\ ~RecordingStarts) =>
              \A s \in Slots : loopSlots'[s].loop = loopSlots[s].loop]_vars

\* Slot B was recorded, then overdubbed, and the overdub stopped: the descriptor of
\* the recording is followed by the one of the overdub.
C9_Witness ==
    /\ ~isOverdub
    /\ ~isRecording
    /\ mediaRecorder = 2
    /\ \E r \in recorders : r.id = 2 /\ r.session = "overdub" /\ r.state = "stopped"
    /\ loopSlots["B"].loop = <<DrumEvent("kick", 1), DrumEvent("kick", 0)>>

\* ----------------------------------------------------------------- C10
\* C10: the stop handler of an overdub's recorder replaces no capture a slot holds.
C10_OverdubKeepsCapture ==
    [][\A r \in recorders :
          (/\ r.session = "overdub"
           /\ r.state = "stopped"
           /\ recorders' = (recorders \ {r}) \cup {[r EXCEPT !.state = "decoding"]})
              => \A s \in Slots :
                    loopSlots[s].audioBlob # 0
                        => loopSlots'[s].audioBlob = loopSlots[s].audioBlob]_vars

\* A whole number in lo .. hi.
WholeIn(v, lo, hi) == \E n \in lo .. hi : v = JsInt(n)

\* One of the slot names a, b, c, d in either case.
NamesSlot(v) == \E str \in {"a", "b", "c", "d", "A", "B", "C", "D"} : v = JsString(str)

\* The step changed nothing but the record of the sounds it triggered, and it
\* triggered none.
NoOp ==
    /\ trig' = <<>>
    /\ UNCHANGED <<audioVars, timers, seqVars, recVars, activeSlot, loopSlots, waveType, otherVars,
                   releaseTime>>

\* Some facade call with an invalid argument fits the step.
InvalidCall ==
    \/ \E p \in PadInputs : ~WholeIn(p, 1, 8) /\ MK1DrumsHit(p)
    \/ \E c \in CellInputs, a \in ActiveInputs :
          /\ ~WholeIn(c[1], 1, 8) \/ ~WholeIn(c[2], 1, 16)
          /\ MK1SequencerSetStep(c[1], c[2], a)
    \/ \E t \in TrackInputs : ~WholeIn(t, 1, 8) /\ MK1SequencerClearTrack(t)
    \/ \E slot \in SlotArgInputs :
          /\ ~NamesSlot(slot)
          /\ \/ MK1LooperRecord(slot) \/ MK1LooperAddLayer(slot)
             \/ MK1LooperPlay(slot) \/ MK1LooperStop(slot)
             \/ MK1LooperClear(slot)

\* C11: a facade call with an invalid argument is a no-op. MK1.drums.hit with a
\* pad that is not a whole number in 1..8, MK1.sequencer.setStep and clearTrack
\* with a track that is not a whole number in 1..8 or a step that is not a whole
\* number in 1..16, and MK1.looper.record, addLayer, play, stop and clear with a
\* slot that is not one of a, b, c, d in either case trigger nothing, schedule
\* nothing and leave the pattern, the slots, activeSlot and the recording flags
\* unchanged; after the call getStep returns false, getSlotStatus returns null
\* and looper.isPlaying returns false for these arguments.
C11_InvalidArgumentsNoOp ==
    /\ [][InvalidCall => NoOp]_vars
    /\ [](\A c \in CellInputs :
             ~WholeIn(c[1], 1, 8) \/ ~WholeIn(c[2], 1, 16)
             => MK1SequencerGetStep(sequencerSteps, c[1], c[2]) = FALSE)
    /\ [](\A slot \in SlotArgInputs :
             ~NamesSlot(slot)
             => /\ MK1LooperGetSlotStatus(loopSlots, slot).status = "null"
                /\ MK1LooperIsPlaying(loopSlots, slot) = FALSE)

\* A pattern cell is set, a recording runs on slot A, which holds a logged
\* event and is being replayed, and the last call triggered nothing.
C11_Witness ==
    /\ sequencerSteps["kick"][15]
    /\ isRecording
    /\ activeSlot = "A"
    /\ Len(loopSlots["A"].loop) = 1
    /\ loopSlots["A"].isPlaying
    /\ MK1LooperGetSlotStatus(loopSlots, JsString("x")).status = "null"
    /\ ~MK1SequencerGetStep(sequencerSteps, JsInt(1), JsNumber(31, 2))
    /\ trig = <<>>

\* The boolean value of a JavaScript value: every value is true except false,
\* 0, NaN, the empty string and undefined.
BooleanValue(a) ==
    a \notin {JsBoolean(FALSE), JsInt(0), JsNaN, JsString(""), JsUndefined}

\* getStep gives the same result for every cell but <<track, step>>.
OtherCellsKept(track, step) ==
    \A t \in 1 .. 8, st \in 1 .. 16 :
        <<JsInt(t), JsInt(st)>> # <<track, step>>
        => MK1SequencerGetStep(sequencerSteps', JsInt(t), JsInt(st))
               = MK1SequencerGetStep(sequencerSteps, JsInt(t), JsInt(st))

\* C12: for every track t in 1..8, step s in 1..16 and value a, after
\* MK1.sequencer.setStep(t, s, a) the call getStep(t, s) returns the boolean value
\* of a and getStep returns for every other cell what it returned before;
\* MK1.sequencer.clearTrack(t) makes getStep(t, s) false for all s and leaves the
\* other seven tracks unchanged.
C12_SetStepGetStep ==
    [][/\ \A c \in GridCellInputs, a \in ActiveInputs :
            WholeIn(c[1], 1, 8) /\ WholeIn(c[2], 1, 16)
                /\ MK1SequencerSetStep(c[1], c[2], a)
            => /\ MK1SequencerGetStep(sequencerSteps', c[1], c[2]) = BooleanValue(a)
               /\ OtherCellsKept(c[1], c[2])
       /\ \A t \in GridTrackInputs :
            WholeIn(t, 1, 8) /\ MK1SequencerClearTrack(t)
            => /\ \A st \in 1 .. 16 :
                    MK1SequencerGetStep(sequencerSteps', t, JsInt(st)) = FALSE
               /\ \A u \in 1 .. 8, st \in 1 .. 16 :
                    JsInt(u) # t
                    => MK1SequencerGetStep(sequencerSteps', JsInt(u), JsInt(st))
                           = MK1SequencerGetStep(sequencerSteps, JsInt(u), JsInt(st))]_vars

\* Cells were set on the first and the last track and the second track was
\* cleared again: getStep(1, 16) and getStep(8, 1) are true, track 2 is empty.
C12_Witness ==
    /\ MK1SequencerGetStep(sequencerSteps, JsInt(1), JsInt(16))
    /\ MK1SequencerGetStep(sequencerSteps, JsInt(8), JsInt(1))
    /\ ~MK1SequencerGetStep(sequencerSteps, JsInt(1), JsInt(1))
    /\ \A st \in 1 .. 16 : ~MK1SequencerGetStep(sequencerSteps, JsInt(2), JsInt(st))
    /\ sequencerSteps["kick"][15] /\ sequencerSteps["rim"][0]

\* C13: numeric facade parameters are clamped to their ranges. After
\* MK1.tempo.setBPM(v) getBPM is a whole number in 60..200, after
\* MK1.synth.setAttack(v) attackTime is a whole number in 0..500, after
\* MK1.synth.setRelease(v) releaseTime is a whole number in 50..2000, after
\* MK1.fx.setCrush(v) the crush amount is a whole number in 0..16, for every
\* number v; and a running sequencer ticks every 15000 / tempo milliseconds.
C13_ParametersClamped ==
    /\ MK1TempoGetBPM \in 60 .. 200
    /\ WholeIn(attackTime, 0, 500)
    /\ releaseTime \in 50 .. 2000
    /\ WholeIn(crushAmount, 0, 16)
    /\ \A i \in DOMAIN timers :
          timers[i].kind = "tick" => timers[i].every = DelayUnits(15000 \div tempo)

\* ----------------------------------------------------------------- C14
\* A step click from the pattern `before` leaves `before` as the newest entry
\* of the history.
ClickSavesPattern ==
    \A d \in EditDrumInputs, i \in EditStepInputs :
        StepClick(d, i) => sequencerHistory'[Len(sequencerHistory')] = sequencerSteps

\* An undo that follows step clicks only (the index is at the newest entry,
\* which holds the pattern from before the last click).
UndoAfterClicks ==
    /\ UndoKey
    /\ Len(sequencerHistory) >= 2
    /\ sequencerHistoryIndex = Len(sequencerHistory) - 1

\* C14: undo reverts exactly the most recent step toggle: after n >= 1 step
\* clicks one undo restores the pattern from immediately before the last
\* click, and the k-th successive undo (k <= n) restores the pattern from
\* before the last k clicks, which is the history entry one above the new
\* index.
C14_UndoRevertsLastToggle ==
    [][/\ ClickSavesPattern
       /\ UndoAfterClicks =>
             sequencerSteps' = sequencerHistory[Len(sequencerHistory)]
       /\ (UndoKey /\ sequencerHistoryIndex > 0) =>
             sequencerSteps' = sequencerHistory[sequencerHistoryIndex' + 2]]_vars

\* ----------------------------------------------------------------- C15
\* C15: in every state reached by step clicks (the index at the newest entry
\* of the history), undo followed by redo leaves the pattern equal to what it
\* was before the undo.
C15_RedoInvertsUndo ==
    sequencerHistoryIndex = Len(sequencerHistory) - 1 =>
        redoSequencer(undoSequencer(SequencerState)).steps = sequencerSteps

\* ----------------------------------------------------------------- C20
\* The history has 1..MAX_HISTORY entries and the index points at one of them.
HistoryWellIndexed ==
    /\ Len(sequencerHistory) \in 1 .. MAX_HISTORY
    /\ sequencerHistoryIndex \in 0 .. (Len(sequencerHistory) - 1)

\* A step click leaves the index at the newest entry, keeps the entries up to
\* the old index and drops the ones above it (the redo states).
SaveDiscardsRedo ==
    StepClick("kick", 0) =>
        /\ sequencerHistoryIndex' = Len(sequencerHistory') - 1
        /\ sequencerHistoryIndex < Len(sequencerHistory) - 1 =>
              /\ Len(sequencerHistory') = sequencerHistoryIndex + 2
              /\ SubSeq(sequencerHistory', 1, sequencerHistoryIndex + 1) =
                    SubSeq(sequencerHistory, 1, sequencerHistoryIndex + 1)

\* A redo with the index at the newest entry changes nothing.
RedoAtNewestNoOp ==
    (RedoKey /\ sequencerHistoryIndex = Len(sequencerHistory) - 1) =>
        UNCHANGED <<sequencerHistory, sequencerHistoryIndex, sequencerSteps>>

\* C20: the undo history stays bounded and well indexed: it always has 1 to
\* 50 entries and the index is one of 0 .. length - 1; right after
\* saveSequencerState the index is length - 1, so an edit made after undos
\* discards the redo states and a following redo is a no-op.
C20_HistoryBounded ==
    /\ []HistoryWellIndexed
    /\ [][SaveDiscardsRedo /\ RedoAtNewestNoOp]_vars

\* The history is full and has shifted, and its two newest entries are equal:
\* the last click followed an undo and replaced the redo state.
C20_Witness ==
    /\ Len(sequencerHistory) = MAX_HISTORY
    /\ sequencerHistoryIndex = MAX_HISTORY - 1
    /\ edits > MAX_HISTORY
    /\ sequencerHistory[MAX_HISTORY] = sequencerHistory[MAX_HISTORY - 1]

\* ----------------------------------------------------------------- C16
\* C16: MK1.synth.play changes the release time only temporarily: whenever
\* every timer scheduled by the synth.play calls made so far has fired,
\* releaseTime is again the value it had before the first call (RELEASE_MS,
\* as nothing else sets it here), also for calls made less than 10 ms apart.
C16_ReleaseRestored ==
    (\A i \in DOMAIN timers : timers[i].kind # "releaseRestore") =>
        releaseTime = RELEASE_MS

\* ----------------------------------------------------------------- C18
\* The replay timer that runs next, if any, belongs to a slot that is playing.
\* A slot is replayed only while idle here, so a slot with a pending replay
\* timer is not playing only after stop, stopAll or clear.
NextReplayNotStopped ==
    \A i \in DOMAIN timers :
        (IsNext(i) /\ timers[i].kind = "replay") => loopSlots[timers[i].slot].isPlaying

\* C18: MK1.looper.stop(slot) stops the slot's event replay: once stop(slot),
\* stopAll() or clear(slot) has returned, no logged event of that slot that an
\* earlier play call scheduled is triggered any more.
C18_StopEndsReplay ==
    [][(ReplayFires /\ trig' # <<>>) => NextReplayNotStopped]_vars

\* ----------------------------------------------------------------- C19
\* C19: DwellAudio.start and DwellAudio.stop are idempotent with respect to
\* the running state: start while running creates no layer, schedules no
\* timer and changes no state, stop while not running changes no state, and
\* isRunning() is true exactly from a start to the next stop: it is false
\* after load, true after start, false after stop, and nothing else changes it.
C19_StartStopIdempotent ==
    /\ [](DwellIsRunning => dwell.audioContext)
    /\ [][/\ (DwellStart /\ DwellIsRunning) => dwell' = dwell
          /\ (DwellStop /\ ~DwellIsRunning) => dwell' = dwell
          /\ DwellStart => DwellIsRunning'
          /\ DwellStop => ~DwellIsRunning'
          /\ (DwellIsRunning' # DwellIsRunning) => (DwellStart \/ DwellStop)]_vars

\* Running again after a stop, with a click just played: a start in this state
\* is a call while running.
C19_Witness ==
    /\ DwellIsRunning
    /\ dwell.droneNodes = 2 * DroneVoices
    /\ dwell.frames = 2
    /\ trig = <<DwellClickSound>>

\* ----------------------------------------------------------------- C17
\* C17: the playing state of a looper slot is cleared only after all its
\* events finish: while an event scheduled by MK1.looper.play(slot) is still
\* to be triggered at a later time, MK1.looper.isPlaying(slot) returns true
\* (the slot is never stopped or cleared here), also when play is called
\* again during an earlier replay.
C17_PlayingUntilLastEvent ==
    \A i \in DOMAIN timers :
        (timers[i].kind = "replay" /\ timers[i].due > 0) =>
            MK1LooperIsPlaying(loopSlots, JsString(timers[i].slot))

\* ----------------------------------------------------------------- C21
\* C21: a tempo change while the sequencer is playing and recording restarts
\* the sequencer clock without touching the recording: neither the tempo
\* handler nor its 50 ms restart timer, however it interleaves with the record
\* button, the overdub button and the play/stop toggle, discards the events
\* logged in the active slot or starts a recording.
C21_TempoKeepsRecording ==
    [][(TempoRestartFires \/ \E bpm \in TempoInputs : TempoSlider(bpm)) =>
           /\ loopSlots'[activeSlot].loop = loopSlots[activeSlot].loop
           /\ isRecording' => isRecording
           /\ mediaRecorder' = mediaRecorder]_vars

\* ----------------------------------------------------------------- C22
\* C22: recording and overdub are mutually exclusive: isRecording and
\* isOverdub are never both true, whatever the record button, the overdub
\* button, the sequencer toggle, stopSequencer, the tempo handler and the
\* MK1.looper and MK1.sequencer operations do.
C22_RecordingExcludesOverdub == ~(isRecording /\ isOverdub)

\* A recording that was started while an overdub ran: the overdub's recorder
\* is still capturing and the overdub flag is down.
C22_Witness ==
    /\ isRecording
    /\ ~isOverdub
    /\ \E r \in recorders : r.session = "overdub" /\ r.state = "recording"

\* ----------------------------------------------------------------- C23
\* The live setInterval timers created by toggleSequencer.
LiveClocks == {i \in DOMAIN timers : timers[i].kind = "tick"}

\* C23: at most one sequencer clock exists: the number of live setInterval
\* timers created by toggleSequencer is 1 while isPlaying is true and 0 while
\* it is false, for every interleaving of the page's toggles,
\* MK1.sequencer.start and stop, tempo changes, the 100 ms retry and the 50 ms
\* tempo restart.
C23_OneClock == Cardinality(LiveClocks) = IF isPlaying THEN 1 ELSE 0

\* The sequencer was started again while the restart timer of a tempo change
\* is pending: one clock is live.
C23_Witness ==
    /\ isPlaying
    /\ Cardinality(LiveClocks) = 1
    /\ \E i \in DOMAIN timers : timers[i].kind = "tempoRestart"

\* ---------------------------------------------------------------- C24
\* C24: a stop request is final: from the return of MK1.sequencer.stop() or
\* of a toggle that stopped the sequencer until the next start or toggle
\* request, isPlaying is false and no sequencer clock is live, also while the
\* restart timer of an earlier tempo change is pending.
C24_StopIsFinal ==
    stopRequested => ~isPlaying /\ LiveClocks = {}

\* ---------------------------------------------------------------- C25
\* The media recorders that are capturing.
Capturing == {r \in recorders : r.state = "recording"}

\* C25: at most one media recorder is capturing at any time: when
\* startMediaRecording creates a recorder, every recorder created before it
\* is inactive, for every sequence of record-button, overdub-button,
\* sequencer-toggle and MK1.looper record / addLayer / stopRecording calls.
C25_OneRecorderCapturing == Cardinality(Capturing) <= 1

\* ---------------------------------------------------------------- C26
\* C26: one recording session lands in one slot: when every recording starts
\* in slot A, the logged events, the audio blob and the decoded buffer are all
\* stored in slot A and every other slot stays empty, whichever slot button is
\* pressed while the recording or the decode is in progress.
C26_SessionInOneSlot ==
    \A slot \in Slots \ {"A"} : loopSlots[slot] = EmptySlot

\* ---------------------------------------------------------------- C27
\* C27: restarting the dwell engine accumulates nothing: for any sequence of
\* DwellAudio.start and DwellAudio.stop calls there are never more than 3 live
\* drone voices, never more positioned sources than source definitions, and
\* never more than one updateSpatial animation loop.
C27_NoAccumulation ==
    /\ dwell.droneNodes <= DroneVoices
    /\ dwell.sources <= SourceCount
    /\ dwell.frames <= 1

\* ------------------------------------------------------------ the program
Next ==
    \/ InitBtnClick
    \/ \E d \in DrumInputs : PadClick(d)
    \/ \E f \in FreqInputs : KeyClick(f)
    \/ \E w \in WaveInputs : SelectWave(w)
    \/ RetryDrumFires
    \/ RetryNoteFires
    \/ PlaySeqBtnClick
    \/ SpaceKey
    \/ RetryToggleFires
    \/ SeqTick
    \/ \E bpm \in TempoInputs : TempoSlider(bpm)
    \/ TempoRestartFires
    \/ \E d \in DrumInputs, i \in StepInputs : ShortHistoryStepClick(d, i)
    \/ RecordBtnClick
    \/ RetryRecordBtnFires
    \/ OverdubBtnClick
    \/ RetryOverdubBtnFires
    \/ \E slot \in SlotInputs : SlotBtnClick(slot)
    \/ ClearLoopBtnClick
    \/ PlayLoopBtnClick
    \/ RetryPlayLoopBtnFires
    \/ PlayAllBtnClick
    \/ RetryPlayAllBtnFires
    \/ ReplayFires
    \/ RecorderStopFires
    \/ \E ok \in BOOLEAN, d \in BufferDurationInputs : DecodeSettles(ok, d)
    \/ \E p \in PadInputs : MK1DrumsHit(p)
    \/ \E n \in NoteInputs, d \in DurationMsInputs : MK1SynthPlay(n, d)
    \/ ReleaseRestoreFires
    \/ \E c \in CellInputs, a \in ActiveInputs : MK1SequencerSetStep(c[1], c[2], a)
    \/ MK1SequencerStart
    \/ MK1SequencerStop
    \/ \E value \in BpmInputs : MK1TempoSetBPM(value)
    \/ \E slot \in SlotArgInputs : MK1LooperRecord(slot)
    \/ MK1LooperStopRecording
    \/ \E slot \in SlotArgInputs : MK1LooperAddLayer(slot)
    \/ \E slot \in SlotArgInputs : MK1LooperPlay(slot)
    \/ SourceEnded
    \/ ClearPlayingFires
    \/ \E slot \in SlotArgInputs : MK1LooperStop(slot)
    \/ \E slot \in SlotArgInputs : MK1LooperClear(slot)
    \/ MK1LooperStopAll
    \/ \E t \in TrackInputs : MK1SequencerClearTrack(t)
    \/ \E value \in UnitInputs : MK1SynthSetAttack(value)
    \/ \E value \in ReleaseInputs : MK1SynthSetRelease(value)
    \/ BitcrusherReady
    \/ \E value \in UnitInputs : MK1FxSetCrush(value)
    \/ UndoKey
    \/ RedoKey
    \/ DwellStart
    \/ DwellStop
    \/ DwellEventFires
    \/ DwellClickFires
    \/ DwellFrame
    \/ \E x \in PositionInputs, y \in PositionInputs : DwellSetPosition(x, y)
    \/ Advance

Spec == Init /\ [][Next]_vars
====
